---- MODULE Spec2Model ----
(***************************************************************************)
(* TypeFree: push-to-talk dictation.  One capture thread                   *)
(* (audio.rs, start_recording) feeds one streaming session                 *)
(* (doubao_asr.rs, run_asr_session) made of three tasks: forward_task      *)
(* (relay), send_task (sender) and recv_task (receiver).                   *)
(***************************************************************************)
EXTENDS Integers, Sequences, FiniteSets, TLC

\* ---------------------------------------------------------------- bounds
\* hardware buffers delivered to the capture callback during one capture
MaxCallbacks == 2
\* items (frames, errors, end of stream) the connection yields to the receiver
MaxFrames == 3

\* One run is explored in two environments: a busy microphone on a connection
\* that yields a single item, and a silent microphone (no buffer delivered
\* before the capture ends) on a busy connection.  The capture pipeline and
\* the receiver share nothing but the stop flag and the final join.
Environments == {[callbacks |-> MaxCallbacks, frames |-> 1],
                 [callbacks |-> 0, frames |-> MaxFrames]}

\* ------------------------------------------------------ program constants
CHUNK_SIZE == 4096
QUEUE_CAPACITY == 100

\* converted samples one hardware callback may append
CallbackSizes == {2048, 5120}

\* ------------------------------------------------------------------ state
VARIABLES
  env,               \* the environment of this run (see Environments)
  cachedCookies,     \* CACHED_COOKIES is Some
  cachedAsrRequest,  \* CACHED_ASR_REQUEST is Some
  cachedUrlParams,   \* CACHED_URL_PARAMS is Some
  cachedLoginStatus, \* CACHED_LOGIN_STATUS: "none" (None), "in" (Some(true)), "out" (Some(false))
  clearCount,        \* calls of clear_cached_cookies so far
  stop_flag,         \* the Arc<AtomicBool> shared by capture and session
  sess_pc,           \* run_asr_session: "init","connecting","running","returned"
  result,            \* what run_asr_session returned: "none","Ok","Err"
  cap_pc,            \* capture thread: "starting","recording","flushed","done","failed"
  buf,               \* accumulation buffer: [first, len] (a run of sample positions)
  nCallbacks,        \* hardware callbacks delivered
  produced,          \* every chunk the capturer handed to tx.send, in order
  audio_chan,        \* std::sync::mpsc channel capture -> relay
  audio_q,           \* tokio mpsc channel(100) relay -> sender
  fwd_pc,            \* forward_task: "idle","run","done"
  send_pc,           \* send_task: "idle","run","sleep","done"
  wire,              \* frames written on the connection, in order
  writeFailed,       \* a write on the connection returned Err
  finishAttempts,    \* times the sender called send(Text(finish))
  stopSeen,          \* the sender loaded the stop flag and found it set
  recv_pc,           \* recv_task: "idle","top","await","done"
  final_text,        \* recv_task's final_text
  finish_timeout,    \* recv_task's finish_timeout: "none" or "armed"
  armCount,          \* times finish_timeout was assigned
  expired,           \* Instant::now() >= deadline
  consumed,          \* the items ws_rx.next() yielded to the receiver, in order
  calls,             \* callbacks invoked: <<"partial", t>> or <<"final", t>>
  recv_exit,         \* how recv_task ended
  is_recording,      \* IS_RECORDING (lib.rs), set by the trigger handlers
  runs,              \* every run_stt spawned by a press, in order (see AppSpec)
  method,            \* resample's METHOD: "Linear" or "Sinc"
  sinc_resampler,    \* SINC_RESAMPLER: <<>> (None) or <<r>> (Some), r the rates and chunk size
  call,              \* the conversion call in progress: entry point and arguments
  dsp_pc,            \* its position: "idle","mono","resample","linear","len","loop","sinc","process","done"
  path,              \* what computed its output: "none","same","linear","sinc"
  mono,              \* convert_i16_to_16k_mono's mono, the input of resample
  ratio,             \* resample_linear's ratio
  new_len,           \* resample_linear's new_len
  output,            \* the samples the call returns
  acquired,          \* cookie snapshots stored in CACHED_COOKIES so far; the last is the one cached
  dropped,           \* what clear_cached_cookies removed from the cache (see Drop)
  tasks,             \* every run_asr_session / test_connection started, in order (see CredSpec)
  startup_pc,        \* the startup task of lib.rs 385-417: "waiting","login","done"
  is_pressed,        \* fn_key.rs windows::IS_PRESSED
  long_press_triggered, \* windows::LONG_PRESS_TRIGGERED
  press_time_ms,     \* windows::PRESS_TIME_MS (0: not pressed)
  clock_ms,          \* what current_time_ms() returns now
  key_down,          \* the trigger key is physically held
  down_at,           \* the clock when it was last pressed
  presses,           \* physical presses so far
  cb_calls           \* the monitor's callback invocations: [v: the argument, press: during which press]

capVars  == <<cap_pc, buf, nCallbacks, produced, audio_chan>>
sendVars == <<send_pc, wire, writeFailed, finishAttempts, stopSeen>>
recvVars == <<recv_pc, final_text, finish_timeout, armCount, expired, consumed, calls, recv_exit>>
cacheVars == <<cachedCookies, cachedAsrRequest, cachedUrlParams, cachedLoginStatus, clearCount>>
sessVars == <<sess_pc, result>>
appVars == <<is_recording, runs>>
dspVars == <<method, sinc_resampler, call, dsp_pc, path, mono, ratio, new_len, output>>
credVars == <<acquired, dropped, tasks, startup_pc>>
keyVars == <<is_pressed, long_press_triggered, press_time_ms, clock_ms, key_down, down_at,
             presses, cb_calls>>

\* what the steps of one session leave alone
pipelineFrame == <<env, appVars, dspVars, credVars, keyVars>>

\* one session in detail, the stop flag apart
pipelineVars == <<env, capVars, audio_q, fwd_pc, sendVars, recvVars, cacheVars, sessVars>>

vars == <<env, cachedCookies, cachedAsrRequest, cachedUrlParams, cachedLoginStatus,
          startup_pc, clearCount, stop_flag, sess_pc, result,
          cap_pc, buf, nCallbacks, produced, audio_chan, audio_q, fwd_pc,
          send_pc, wire, writeFailed, finishAttempts, stopSeen,
          recv_pc, final_text, finish_timeout, armCount, expired, consumed, calls,
          recv_exit, is_recording, runs,
          method, sinc_resampler, call, dsp_pc, path, mono, ratio, new_len, output,
          acquired, dropped, tasks,
          is_pressed, long_press_triggered, press_time_ms, clock_ms, key_down, down_at,
          presses, cb_calls>>

\* ---------------------------------------------------------------- helpers
Last(s) == s[Len(s)]

Chunk(id, first, len) == [id |-> id, first |-> first, len |-> len]

\* audio_rx (the std receiver) is dropped: run_asr_session returned before
\* spawning the relay, or the relay closure ended.
AudioRxDropped == fwd_pc = "done" \/ (sess_pc = "returned" /\ fwd_pc = "idle")

\* audio_rx_async (the tokio receiver) is dropped: the sender closure ended.
AudioRxAsyncDropped == send_pc = "done"

\* every std Sender (tx and the callback's tx_clone) is dropped
AudioTxDropped == cap_pc \in {"done", "failed"}

\* ------------------------------------------------------- capture (audio.rs)
\* buf.extend(samples)
Extend(b, n) == [first |-> b.first, len |-> b.len + n]

\* faulty variant: a buffer of exactly CHUNK_SIZE samples is left alone
RECURSIVE DrainChunksAbove(_, _)
DrainChunksAbove(b, id) ==
  IF b.len > CHUNK_SIZE
  THEN LET r == DrainChunksAbove([first |-> b.first + CHUNK_SIZE, len |-> b.len - CHUNK_SIZE], id + 1)
       IN  [buf |-> r.buf, chunks |-> <<Chunk(id, b.first, CHUNK_SIZE)>> \o r.chunks]
  ELSE [buf |-> b, chunks |-> <<>>]

\* while buf.len() >= CHUNK_SIZE { chunk = buf.drain(..CHUNK_SIZE); tx.send(chunk) }
\* returns the buffer left and the chunks sent, ids counted from id
RECURSIVE DrainChunks(_, _)
DrainChunks(b, id) ==
  IF b.len >= CHUNK_SIZE
  THEN LET r == DrainChunks([first |-> b.first + CHUNK_SIZE, len |-> b.len - CHUNK_SIZE], id + 1)
       IN  [buf |-> r.buf, chunks |-> <<Chunk(id, b.first, CHUNK_SIZE)>> \o r.chunks]
  ELSE [buf |-> b, chunks |-> <<>>]

\* faulty variant: the remainder is sent even when it is empty
FlushAlways(b, id) == <<Chunk(id, b.first, b.len)>>

\* the remainder sent at stop: if !buf.is_empty() { tx.send(buf bytes) }
\* (the buffer is read, not drained)
FlushChunks(b, id) ==
  IF b.len > 0 THEN <<Chunk(id, b.first, b.len)>> ELSE <<>>

\* let _ = tx.send(bytes): queued unless the receiver is gone
ChanSend(chan, chunks) == IF AudioRxDropped THEN chan ELSE chan \o chunks

\* stream.play() succeeded: the thread reaches "Recording started"
CaptureStart ==
  /\ cap_pc = "starting"
  /\ cap_pc' = "recording"
  /\ UNCHANGED <<buf, nCallbacks, produced, audio_chan, audio_q, fwd_pc, stop_flag>>
  /\ UNCHANGED <<sendVars, recvVars, cacheVars, sessVars>>
  /\ UNCHANGED pipelineFrame

\* unsupported sample format, build_input_stream or play failed: the thread returns
CaptureFail ==
  /\ cap_pc = "starting"
  /\ cap_pc' = "failed"
  /\ UNCHANGED <<buf, nCallbacks, produced, audio_chan, audio_q, fwd_pc, stop_flag>>
  /\ UNCHANGED <<sendVars, recvVars, cacheVars, sessVars>>
  /\ UNCHANGED pipelineFrame

\* one hardware callback with n converted samples; the stream lives until the
\* thread closure returns
CaptureCallback ==
  /\ cap_pc \in {"recording", "flushed"}
  /\ nCallbacks < env.callbacks
  /\ \E n \in CallbackSizes :
       LET r == DrainChunks(Extend(buf, n), Len(produced) + 1)
       IN  /\ buf' = r.buf
           /\ produced' = produced \o r.chunks
           /\ audio_chan' = ChanSend(audio_chan, r.chunks)
  /\ nCallbacks' = nCallbacks + 1
  /\ UNCHANGED <<cap_pc, audio_q, fwd_pc, stop_flag>>
  /\ UNCHANGED <<sendVars, recvVars, cacheVars, sessVars>>
  /\ UNCHANGED pipelineFrame

\* while !stop_flag { sleep 50ms }; then the remainder is sent
CaptureFlush ==
  /\ cap_pc = "recording"
  /\ stop_flag
  /\ LET c == FlushChunks(buf, Len(produced) + 1)
     IN  /\ produced' = produced \o c
         /\ audio_chan' = ChanSend(audio_chan, c)
  /\ cap_pc' = "flushed"
  /\ UNCHANGED <<buf, nCallbacks, audio_q, fwd_pc, stop_flag>>
  /\ UNCHANGED <<sendVars, recvVars, cacheVars, sessVars>>
  /\ UNCHANGED pipelineFrame

\* the closure returns: the stream and both senders are dropped
CaptureExit ==
  /\ cap_pc = "flushed"
  /\ cap_pc' = "done"
  /\ UNCHANGED <<buf, nCallbacks, produced, audio_chan, audio_q, fwd_pc, stop_flag>>
  /\ UNCHANGED <<sendVars, recvVars, cacheVars, sessVars>>
  /\ UNCHANGED pipelineFrame

\* ------------------------------------------------------ the trigger release
\* on_fn_released while the session runs: IS_RECORDING.swap(false) finds it set
\* and STOP_FLAG.store(true) follows
SetStop ==
  /\ is_recording
  /\ is_recording' = FALSE
  /\ stop_flag' = TRUE
  /\ UNCHANGED <<capVars, audio_q, fwd_pc, sendVars, recvVars, cacheVars, sessVars>>
  /\ UNCHANGED <<env, runs, dspVars, credVars, keyVars>>

\* ------------------------------------------- the caches of doubao_cdp.rs
Caches ==
  [cookies |-> cachedCookies, asr_request |-> cachedAsrRequest,
   url_params |-> cachedUrlParams, login_status |-> cachedLoginStatus]
SetCaches(c) ==
  /\ cachedCookies' = c.cookies
  /\ cachedAsrRequest' = c.asr_request
  /\ cachedUrlParams' = c.url_params
  /\ cachedLoginStatus' = c.login_status

\* faulty variant: the cached cookie survives
ClearedKeeps(present) == present

\* doubao_cdp.rs 233-237: CACHED_COOKIES after clear_cached_cookies
Cleared(present) == FALSE

\* faulty variant: every cache is emptied
ClearCachedAll(c) ==
  [cookies |-> FALSE, asr_request |-> FALSE, url_params |-> FALSE, login_status |-> "none"]

\* clear_cached_cookies, doubao_cdp.rs 233-237, on the four caches
ClearCachedCookies(c) == [c EXCEPT !.cookies = Cleared(c.cookies)]

\* fetch_asr_info_auto, doubao_cdp.rs 749-771: CACHED_URL_PARAMS after a
\* fetch that got as far as the template (reached), whose capture by click
\* succeeded or not (captured); a cached template is used as it is
UrlParamsAfterFetch(present, reached, captured) == present \/ (reached /\ captured)

\* ---------------------------------------- run_asr_session: startup and join
\* lines 33-42: both caches present -> use them; otherwise fetch_asr_info_auto,
\* which fails before caching anything, fails after caching the cookie, or
\* succeeds caching both
SessionAcquire ==
  /\ sess_pc = "init"
  /\ IF cachedCookies /\ cachedAsrRequest
     THEN /\ sess_pc' = "connecting"
          /\ UNCHANGED <<cachedCookies, cachedAsrRequest, cachedUrlParams, result>>
     ELSE \E outcome \in {"fail_early", "fail_late", "ok"}, captured \in BOOLEAN :
            /\ cachedCookies' = (cachedCookies \/ outcome # "fail_early")
            /\ cachedAsrRequest' = (cachedAsrRequest \/ outcome = "ok")
            /\ cachedUrlParams' = UrlParamsAfterFetch(cachedUrlParams, outcome = "ok", captured)
            /\ sess_pc' = IF outcome = "ok" THEN "connecting" ELSE "returned"
            /\ result' = IF outcome = "ok" THEN result ELSE "Err"
  /\ UNCHANGED <<cachedLoginStatus, clearCount, stop_flag, capVars, audio_q, fwd_pc,
                 sendVars, recvVars>>
  /\ UNCHANGED pipelineFrame

\* faulty variant: the tasks are spawned before the handshake is awaited
SpawnedAlways(ok, pc) == pc

\* lines 74-129: a task is spawned, at pc, once connect_async has returned Ok
Spawned(ok, pc) == IF ok THEN pc ELSE "idle"

\* lines 61-125: connect_async; on success the three tasks are spawned, on
\* failure the error is returned (line 65)
SessionConnect ==
  /\ sess_pc = "connecting"
  /\ \E ok \in BOOLEAN :
       /\ sess_pc' = IF ok THEN "running" ELSE "returned"
       /\ result' = IF ok THEN result ELSE "Err"
       /\ fwd_pc' = Spawned(ok, "run")
       /\ send_pc' = Spawned(ok, "run")
       /\ recv_pc' = Spawned(ok, "top")
  /\ UNCHANGED <<cacheVars, stop_flag, capVars, audio_q, wire, writeFailed, finishAttempts, stopSeen>>
  /\ UNCHANGED <<final_text, finish_timeout, armCount, expired, consumed, calls, recv_exit>>
  /\ UNCHANGED pipelineFrame

\* faulty variant: the session returns as soon as the receiver has ended
SessionJoinReceiver ==
  /\ sess_pc = "running"
  /\ recv_pc = "done"
  /\ sess_pc' = "returned"
  /\ result' = "Ok"
  /\ UNCHANGED <<cacheVars, stop_flag, capVars, audio_q, fwd_pc, sendVars, recvVars>>
  /\ UNCHANGED pipelineFrame

\* lines 235-238: tokio::join!(forward_task, send_task, recv_task); Ok(())
SessionJoin ==
  /\ sess_pc = "running"
  /\ fwd_pc = "done" /\ send_pc = "done" /\ recv_pc = "done"
  /\ sess_pc' = "returned"
  /\ result' = "Ok"
  /\ UNCHANGED <<cacheVars, stop_flag, capVars, audio_q, fwd_pc, sendVars, recvVars>>
  /\ UNCHANGED pipelineFrame

\* --------------------------------------------- forward_task (lines 74-93)
\* faulty variant: the chunk jumps the queue
RelayFront(q, data) == <<data>> \o q

\* tx.send(data).await on the tokio channel
Relay(q, data) == Append(q, data)

\* Ok(data): the chunk is moved to the tokio channel; the send waits while the
\* channel is full and fails (ignored) once the sender task is gone
ForwardRelay ==
  /\ fwd_pc = "run"
  /\ audio_chan # <<>>
  /\ AudioRxAsyncDropped \/ Len(audio_q) < QUEUE_CAPACITY
  /\ audio_chan' = Tail(audio_chan)
  /\ audio_q' = IF AudioRxAsyncDropped THEN audio_q ELSE Relay(audio_q, Head(audio_chan))
  /\ UNCHANGED <<cap_pc, buf, nCallbacks, produced, fwd_pc, stop_flag>>
  /\ UNCHANGED <<sendVars, recvVars, cacheVars, sessVars>>
  /\ UNCHANGED pipelineFrame

\* Err(Timeout) with the stop flag set: break
ForwardStop ==
  /\ fwd_pc = "run"
  /\ audio_chan = <<>>
  /\ stop_flag
  /\ fwd_pc' = "done"
  /\ UNCHANGED <<capVars, audio_q, stop_flag, sendVars, recvVars, cacheVars, sessVars>>
  /\ UNCHANGED pipelineFrame

\* Err(Disconnected): every sender is dropped and the channel is empty
ForwardDisconnected ==
  /\ fwd_pc = "run"
  /\ audio_chan = <<>>
  /\ AudioTxDropped
  /\ fwd_pc' = "done"
  /\ UNCHANGED <<capVars, audio_q, stop_flag, sendVars, recvVars, cacheVars, sessVars>>
  /\ UNCHANGED pipelineFrame

\* ------------------------------------------------ send_task (lines 97-125)
BinaryFrame(c) == [type |-> "binary", chunk |-> c]
FinishFrame == [type |-> "finish", chunk |-> Chunk(0, 0, 0)]

\* what is left in the tokio channel after one recv()
Dequeue(q) == Tail(q)

\* Some(data) = audio_rx_async.recv(): one binary frame is written; a failed
\* write ends the task
SendChunk ==
  /\ send_pc \in {"run", "sleep"}
  /\ audio_q # <<>>
  /\ \E ok \in BOOLEAN :
       IF ok
       THEN /\ wire' = Append(wire, BinaryFrame(Head(audio_q)))
            /\ audio_q' = Dequeue(audio_q)
            /\ send_pc' = "run"
            /\ UNCHANGED writeFailed
       ELSE /\ writeFailed' = TRUE
            /\ audio_q' = <<>>
            /\ send_pc' = "done"
            /\ UNCHANGED wire
  /\ UNCHANGED <<finishAttempts, stopSeen, capVars, fwd_pc, stop_flag, recvVars, cacheVars, sessVars>>
  /\ UNCHANGED pipelineFrame

\* faulty variant: a closed channel ends the sender
SendIdleClosed ==
  /\ send_pc = "run"
  /\ audio_q = <<>>
  /\ send_pc' = IF fwd_pc = "done" THEN "done" ELSE "sleep"
  /\ UNCHANGED <<wire, writeFailed, finishAttempts, stopSeen, audio_q>>
  /\ UNCHANGED <<capVars, fwd_pc, stop_flag, recvVars, cacheVars, sessVars>>
  /\ UNCHANGED pipelineFrame

\* select! finds the channel empty, or closed (recv() yields None and the
\* branch is disabled): the sleep is awaited
SendIdle ==
  /\ send_pc = "run"
  /\ audio_q = <<>>
  /\ send_pc' = "sleep"
  /\ UNCHANGED <<wire, writeFailed, finishAttempts, stopSeen, audio_q>>
  /\ UNCHANGED <<capVars, fwd_pc, stop_flag, recvVars, cacheVars, sessVars>>
  /\ UNCHANGED pipelineFrame

\* faulty variant: the break after the finish frame is missing
AfterPollNoBreak(stop) == "run"

\* lines 113-119: the loop ends after the finish frame, and only then
AfterPoll(stop) == IF stop THEN "done" ELSE "run"

\* the 50 ms sleep wins the select!: with the stop flag set the finish frame
\* is sent (its result ignored) and the task ends; otherwise the loop goes on
SendPoll ==
  /\ send_pc = "sleep"
  /\ IF stop_flag
     THEN /\ stopSeen' = TRUE
          /\ finishAttempts' = finishAttempts + 1
          /\ \E ok \in BOOLEAN :
               /\ wire' = IF ok THEN Append(wire, FinishFrame) ELSE wire
               /\ writeFailed' = (writeFailed \/ ~ok)
          /\ audio_q' = IF AfterPoll(TRUE) = "done" THEN <<>> ELSE audio_q
     ELSE UNCHANGED <<wire, writeFailed, finishAttempts, stopSeen, audio_q>>
  /\ send_pc' = AfterPoll(stop_flag)
  /\ UNCHANGED <<capVars, fwd_pc, stop_flag, recvVars, cacheVars, sessVars>>
  /\ UNCHANGED pipelineFrame

\* ----------------------------------------------- recv_task (lines 129-232)
\* What ws_rx.next() can yield.  An Option is a sequence of length <= 1:
\* text is result.Text (as_str), code is code (as_i64).
TextFrame(event, text, code) ==
  [kind |-> "text", json |-> TRUE, event |-> event, text |-> text, code |-> code]
Item(kind) ==
  [kind |-> kind, json |-> FALSE, event |-> "", text |-> <<>>, code |-> <<>>]

ResultA    == TextFrame("result", <<"A">>, <<>>)
ResultAB   == TextFrame("result", <<"AB">>, <<>>)
ResultNone == TextFrame("result", <<"">>, <<>>)
ResultCode == TextFrame("result", <<"A">>, <<7>>)
Finish     == TextFrame("finish", <<>>, <<>>)
ServiceErr == TextFrame("", <<>>, <<7>>)
CodeZero   == TextFrame("", <<>>, <<0>>)
Unknown    == TextFrame("ping", <<>>, <<>>)
Malformed  == Item("text")
NonText    == Item("binary")
Close      == Item("close")
RecvError  == Item("error")
StreamEnd  == Item("end")

Inbound == {ResultA, ResultAB, ResultNone, ResultCode, Finish, ServiceErr, CodeZero,
            Unknown, Malformed, NonText, Close, RecvError, StreamEnd}

\* the effect of one step of the receiver: the new final_text, the callbacks
\* invoked, how the task ends ("none": it goes on) and the calls of
\* clear_cached_cookies
Outcome(text, cb, exit, clear) == [text |-> text, cb |-> cb, exit |-> exit, clear |-> clear]
Continue(ft) == Outcome(ft, <<>>, "none", 0)

\* faulty variant: on_final is called whatever final_text holds
FinalCallAlways(ft) == << <<"final", ft>> >>

\* if !final_text.is_empty() { on_final(&final_text) }
FinalCall(ft) == IF ft # "" THEN << <<"final", ft>> >> ELSE <<>>

\* faulty variant: the first partial is kept, later ones only reported
OnResultKeepFirst(f, ft) ==
  IF f.text # <<>> /\ f.text[1] # ""
  THEN Outcome(IF ft = "" THEN f.text[1] ELSE ft, << <<"partial", f.text[1]>> >>, "none", 0)
  ELSE Continue(ft)

\* faulty variant: a result without text clears the transcript and is reported
OnResultAlways(f, ft) ==
  IF f.text # <<>>
  THEN Outcome(f.text[1], << <<"partial", f.text[1]>> >>, "none", 0)
  ELSE Continue(ft)

\* lines 165-177: "result"
OnResult(f, ft) ==
  IF f.text # <<>> /\ f.text[1] # ""
  THEN Outcome(f.text[1], << <<"partial", f.text[1]>> >>, "none", 0)
  ELSE Continue(ft)

\* faulty variant: the return after on_final is missing
OnFinishNoReturn(ft) == Outcome(ft, FinalCall(ft), "none", 0)

\* lines 178-184: "finish"
OnFinish(ft) == Outcome(ft, FinalCall(ft), "finish", 0)

\* lines 185-196: event "" (absent, or not a string), code != 0
OnNoEvent(f, ft) ==
  IF f.code # <<>> /\ f.code[1] # 0
  THEN Outcome(ft, <<>>, "error", 1)
  ELSE Continue(ft)

\* lines 160-202: a text frame; one that is not JSON is skipped
OnText(f, ft) ==
  IF ~f.json THEN Continue(ft)
  ELSE CASE f.event = "result" -> OnResult(f, ft)
         [] f.event = "finish" -> OnFinish(ft)
         [] f.event = ""       -> OnNoEvent(f, ft)
         [] OTHER              -> Continue(ft)

\* faulty variant: the connection's end discards the partial
OnCloseSilent(ft, how) == Outcome(ft, <<>>, how, 0)

\* lines 203-209 and 217-224: Close frame, end of the stream
OnClose(ft, how) == Outcome(ft, FinalCall(ft), how, 0)

\* faulty variant: a frame that cannot be read ends the task like an error
OnItemStrict(f, ft) ==
  CASE f.kind = "text" /\ f.json -> OnText(f, ft)
    [] f.kind = "close"          -> OnClose(ft, "close")
    [] f.kind = "end"            -> OnClose(ft, "end")
    [] OTHER                     -> Outcome(ft, <<>>, "rxerr", 0)

\* lines 157-228: the match on recv_result
OnItem(f, ft) ==
  CASE f.kind = "text"  -> OnText(f, ft)
    [] f.kind = "close" -> OnClose(ft, "close")
    [] f.kind = "end"   -> OnClose(ft, "end")
    [] f.kind = "error" -> Outcome(ft, <<>>, "rxerr", 0)
    [] OTHER            -> Continue(ft)

\* faulty variant: the deadline ends the task without delivering the partial
OnTimeoutNoFinal(ft) == Outcome(ft, <<>>, "timeout", 0)

\* lines 141-149: the deadline has passed
OnTimeout(ft) == Outcome(ft, FinalCall(ft), "timeout", 0)

\* faulty variant: the deadline is set anew in every iteration that sees stop
ShouldArmOnStop(ftm, stop) == stop

\* line 135: stop_flag_recv.load() && finish_timeout.is_none()
ShouldArm(ftm, stop) == stop /\ ftm = "none"

\* faulty variant: the deadline is never armed
ArmNever(ftm, stop) == ftm

\* lines 135-138: the value of finish_timeout after the stop check
Arm(ftm, stop) == IF ShouldArm(ftm, stop) THEN "armed" ELSE ftm

\* applies an outcome to the receiver's state
Apply(o, next_pc) ==
  /\ final_text' = o.text
  /\ calls' = calls \o o.cb
  /\ recv_exit' = o.exit
  /\ recv_pc' = IF o.exit = "none" THEN next_pc ELSE "done"
  /\ clearCount' = clearCount + o.clear
  /\ SetCaches(IF o.clear > 0 THEN ClearCachedCookies(Caches) ELSE Caches)

\* the top of the loop: arm the deadline when stop is seen for the first time,
\* then give up when the deadline has passed, else go and wait for a frame
RecvTop ==
  /\ recv_pc = "top"
  /\ finish_timeout' = Arm(finish_timeout, stop_flag)
  /\ LET assigned == ShouldArm(finish_timeout, stop_flag) /\ finish_timeout' = "armed"
     IN  /\ armCount' = IF assigned THEN armCount + 1 ELSE armCount
         /\ expired' = IF assigned THEN FALSE ELSE expired
  /\ IF finish_timeout' = "armed" /\ expired'
     THEN Apply(OnTimeout(final_text), "await")
     ELSE Apply(Continue(final_text), "await")
  /\ UNCHANGED <<consumed, stop_flag, sess_pc, result>>
  /\ UNCHANGED <<capVars, audio_q, fwd_pc, sendVars>>
  /\ UNCHANGED pipelineFrame

\* ws_rx.next() yields an item within the 100 ms poll
RecvItem ==
  /\ recv_pc = "await"
  /\ Len(consumed) < env.frames
  /\ \E f \in Inbound :
       /\ consumed' = Append(consumed, f)
       /\ Apply(OnItem(f, final_text), "top")
  /\ UNCHANGED <<finish_timeout, armCount, expired, stop_flag, sess_pc, result>>
  /\ UNCHANGED <<capVars, audio_q, fwd_pc, sendVars>>
  /\ UNCHANGED pipelineFrame

\* the 100 ms poll elapses without an item
RecvPollTimeout ==
  /\ recv_pc = "await"
  /\ recv_pc' = "top"
  /\ UNCHANGED <<final_text, finish_timeout, armCount, expired, consumed, calls, recv_exit>>
  /\ UNCHANGED <<cacheVars, stop_flag, sessVars, capVars, audio_q, fwd_pc, sendVars>>
  /\ UNCHANGED pipelineFrame

\* one second has passed since the deadline was armed
TimerExpire ==
  /\ finish_timeout = "armed"
  /\ ~expired
  /\ expired' = TRUE
  /\ UNCHANGED <<recv_pc, final_text, finish_timeout, armCount, consumed, calls, recv_exit>>
  /\ UNCHANGED <<cacheVars, stop_flag, sessVars, capVars, audio_q, fwd_pc, sendVars>>
  /\ UNCHANGED pipelineFrame

\* ------------------------------------------- f64 arithmetic (IEEE 754 binary64)
\* The resampler computes in f64.  A finite f64 is neg, m, e standing for
\* (-1)^neg * m * 2^e with m < 2^53, kept in lowest terms (m odd, or zero);
\* every operation computes the exact result and rounds it once to 53
\* significant bits, ties to even.  Exponent overflow and subnormals cannot
\* occur for the magnitudes of sample rates, lengths and samples.
\* m is a natural number of any size: its base-2^14 digits, least first,
\* without leading zeros.  The operations are written without recursion on
\* the digits (carries are found by look-ahead).
DIGIT_BITS == 14
BASE == 2^DIGIT_BITS
MANTISSA_DIGITS == 53

Max(x, y) == IF x >= y THEN x ELSE y
Min(x, y) == IF x <= y THEN x ELSE y

Digit(a, i) == IF i >= 1 /\ i <= Len(a) THEN a[i] ELSE 0

\* index of the highest digit that is not zero (0 when there is none)
HighDigit(a) == Cardinality({i \in 1..Len(a) : \E k \in i..Len(a) : a[k] # 0})
BNorm(a) == SubSeq(a, 1, HighDigit(a))

\* bits of n < 2^31
NatBitLen(n) == Cardinality({k \in 0..30 : 2^k <= n})
BBitLen(a) == IF a = <<>> THEN 0 ELSE DIGIT_BITS * (Len(a) - 1) + NatBitLen(a[Len(a)])

\* n < 2^31 as digits, and back
BFromNat(n) == BNorm(<<n % BASE, (n \div BASE) % BASE, n \div (BASE * BASE)>>)
BToNat(a) == Digit(a, 1) + BASE * Digit(a, 2) + BASE * BASE * Digit(a, 3)
BOne == <<1>>
BOdd(a) == Digit(a, 1) % 2 = 1

\* a + b
DigitSum(a, b, i) == Digit(a, i) + Digit(b, i)
Carry(a, b, i) ==
  IF \E j \in 1..(i - 1) : /\ DigitSum(a, b, j) >= BASE
                           /\ \A k \in (j + 1)..(i - 1) : DigitSum(a, b, k) >= BASE - 1
  THEN 1 ELSE 0
BAdd(a, b) ==
  IF a = <<>> THEN b ELSE IF b = <<>> THEN a ELSE
  BNorm(<<>> \o [i \in 1..(Max(Len(a), Len(b)) + 1) |->
                   (DigitSum(a, b, i) + Carry(a, b, i)) % BASE])

\* a - b for a >= b
DigitDiff(a, b, i) == Digit(a, i) - Digit(b, i)
Borrow(a, b, i) ==
  IF \E j \in 1..(i - 1) : /\ DigitDiff(a, b, j) < 0
                           /\ \A k \in (j + 1)..(i - 1) : DigitDiff(a, b, k) <= 0
  THEN 1 ELSE 0
BSub(a, b) ==
  IF b = <<>> THEN a ELSE
  BNorm(<<>> \o [i \in 1..Len(a) |-> (DigitDiff(a, b, i) - Borrow(a, b, i) + BASE) % BASE])

\* a < b, a <= b
BLess(a, b) ==
  \E i \in 1..Max(Len(a), Len(b)) :
     /\ Digit(a, i) < Digit(b, i)
     /\ \A k \in (i + 1)..Max(Len(a), Len(b)) : Digit(a, k) = Digit(b, k)
BLeq(a, b) == a = b \/ BLess(a, b)

\* a * BASE^n and floor(a / BASE^n)
BShlDigits(a, n) == IF a = <<>> THEN a ELSE [i \in 1..n |-> 0] \o a
BShrDigits(a, n) == IF n >= Len(a) THEN <<>> ELSE SubSeq(a, n + 1, Len(a))

\* a * 2^r and floor(a / 2^r) for r < DIGIT_BITS
BShlBits(a, r) ==
  BNorm(<<>> \o [i \in 1..(Len(a) + 1) |->
                   ((Digit(a, i) * 2^r) % BASE) + ((Digit(a, i - 1) * 2^r) \div BASE)])
BShrBits(a, r) ==
  BNorm(<<>> \o [i \in 1..Len(a) |->
                   (a[i] \div 2^r) + ((Digit(a, i + 1) % 2^r) * 2^(DIGIT_BITS - r))])

\* a * 2^k and floor(a / 2^k)
BShl(a, k) == BShlDigits(BShlBits(a, k % DIGIT_BITS), k \div DIGIT_BITS)
BShr(a, k) == BShrBits(BShrDigits(a, k \div DIGIT_BITS), k % DIGIT_BITS)

\* a * d for one digit d
BMulDigit(a, d) ==
  IF d = 0 THEN <<>> ELSE
  BAdd(BNorm(<<>> \o [i \in 1..Len(a) |-> (a[i] * d) % BASE]),
       BNorm(<<0>> \o [i \in 1..Len(a) |-> (a[i] * d) \div BASE]))

\* a * b for b of at most four digits (56 bits): the column sums stay below
\* 2^30 and are split into three digits each
Column(a, b, k) ==
  Digit(a, k) * Digit(b, 1) + Digit(a, k - 1) * Digit(b, 2)
    + Digit(a, k - 2) * Digit(b, 3) + Digit(a, k - 3) * Digit(b, 4)
ColumnPart(a, b, p) ==
  BNorm([i \in 1..p |-> 0] \o [k \in 1..(Len(a) + 3) |-> (Column(a, b, k) \div BASE^p) % BASE])
BMul(a, b) ==
  IF a = <<>> \/ b = <<>> THEN <<>> ELSE
  BAdd(BAdd(ColumnPart(a, b, 0), ColumnPart(a, b, 1)), ColumnPart(a, b, 2))

\* trailing zero bits of a > 0
LowDigit(a) == 1 + Cardinality({i \in 1..Len(a) : \A k \in 1..i : a[k] = 0})
BTrailingZeros(a) ==
  DIGIT_BITS * (LowDigit(a) - 1)
    + Cardinality({k \in 1..DIGIT_BITS : a[LowDigit(a)] % 2^k = 0})

\* quotient and remainder of a by b > 0: long division in base BASE with b
\* scaled to a full top digit; a quotient digit is estimated from the two
\* top digits of the running remainder and is at most two too large
QuotEstimate(rem, b) ==
  Min(BASE - 1, (Digit(rem, Len(b) + 1) * BASE + Digit(rem, Len(b))) \div b[Len(b)])
QuotFit(est, rem, b) ==
  IF BLeq(BMulDigit(b, est), rem) THEN est
  ELSE IF BLeq(BMulDigit(b, est - 1), rem) THEN est - 1
  ELSE est - 2
QuotDigit(rem, b) == QuotFit(QuotEstimate(rem, b), rem, b)
BLongPut(qd, rem, b, qs) == [q |-> <<qd>> \o qs, r |-> BSub(rem, BMulDigit(b, qd))]
BLongDigit(rem, b, qs) ==
  IF BLess(rem, b) THEN [q |-> <<0>> \o qs, r |-> rem]
  ELSE BLongPut(QuotDigit(rem, b), rem, b, qs)
BLongStep(p, d, b) ==
  IF p.r = <<>> /\ d = 0 THEN [q |-> <<0>> \o p.q, r |-> <<>>]
  ELSE BLongDigit(BNorm(<<d>> \o p.r), b, p.q)
RECURSIVE BLongDiv(_, _, _)
BLongDiv(a, b, i) ==
  IF i > Len(a) THEN [q |-> <<>>, r |-> <<>>]
  ELSE IF i > Len(a) - Len(b) + 1 THEN [q |-> <<>>, r |-> SubSeq(a, i, Len(a))]
  ELSE BLongStep(BLongDiv(a, b, i + 1), a[i], b)
BScaled(p, s) == [q |-> BNorm(p.q), r |-> BShr(p.r, s)]
BDivScaled(a, b, s) == BScaled(BLongDiv(BShlBits(a, s), BShlBits(b, s), 1), s)
BDivMod(a, b) == BDivScaled(a, b, DIGIT_BITS - NatBitLen(b[Len(b)]))

F64(neg, m, e) == [neg |-> neg, m |-> m, e |-> e]
F64Zero == F64(FALSE, <<>>, 0)

\* lowest terms
CanonBy(neg, m, e, z) == F64(neg, BShr(m, z), e + z)
Canon(neg, m, e) == IF m = <<>> THEN F64Zero ELSE CanonBy(neg, m, e, BTrailingZeros(m))

\* round to nearest, ties to even: m * 2^e, plus a positive amount below one
\* unit of m when sticky (m then has more than MANTISSA_DIGITS + 1 bits)
RoundCut(neg, q, rem, half, sticky, e) ==
  IF BLess(half, rem) \/ (rem = half /\ (sticky \/ BOdd(q)))
  THEN Canon(neg, BAdd(q, BOne), e)
  ELSE Canon(neg, q, e)
RoundAt(neg, m, q, d, sticky, e) ==
  RoundCut(neg, q, BSub(m, BShl(q, d)), BShl(BOne, d - 1), sticky, e + d)
RoundBits(neg, m, d, sticky, e) ==
  IF d <= 0 THEN Canon(neg, m, e) ELSE RoundAt(neg, m, BShr(m, d), d, sticky, e)
Round(neg, m, sticky, e) ==
  IF m = <<>> THEN F64Zero ELSE RoundBits(neg, m, BBitLen(m) - MANTISSA_DIGITS, sticky, e)

\* n as f64 (exact below 2^53)
F64FromInt(n) == IF n < 0 THEN Canon(TRUE, BFromNat(-n), 0) ELSE Canon(FALSE, BFromNat(n), 0)

F64Neg(x) == IF x.m = <<>> THEN x ELSE F64(~x.neg, x.m, x.e)

\* x * y
F64Mul(x, y) ==
  IF x.m = <<>> \/ y.m = <<>> THEN F64Zero
  ELSE Round(x.neg # y.neg, BMul(x.m, y.m), FALSE, x.e + y.e)

\* x / y for y # 0: the quotient is taken to at least MANTISSA_DIGITS + 2 bits
DivShift(x, y) == Max(0, MANTISSA_DIGITS + 2 + BBitLen(y.m) - BBitLen(x.m))
DivRound(neg, p, e) == Round(neg, p.q, p.r # <<>>, e)
DivBy(x, y, k) == DivRound(x.neg # y.neg, BDivMod(BShl(x.m, k), y.m), x.e - y.e - k)
F64Div(x, y) == IF x.m = <<>> THEN F64Zero ELSE DivBy(x, y, DivShift(x, y))

\* x + y
AddAligned(xn, xm, yn, ym, e) ==
  IF xn = yn THEN Round(xn, BAdd(xm, ym), FALSE, e)
  ELSE IF BLeq(ym, xm) THEN Round(xn, BSub(xm, ym), FALSE, e)
  ELSE Round(yn, BSub(ym, xm), FALSE, e)
AddAt(x, y, e) == AddAligned(x.neg, BShl(x.m, x.e - e), y.neg, BShl(y.m, y.e - e), e)
F64Add(x, y) ==
  IF x.m = <<>> THEN y ELSE IF y.m = <<>> THEN x ELSE AddAt(x, y, Min(x.e, y.e))
F64Sub(x, y) == F64Add(x, F64Neg(y))

\* the magnitude of x truncated to a natural number
F64Trunc(x) == IF x.e >= 0 THEN BShl(x.m, x.e) ELSE BShr(x.m, -x.e)

\* x as usize: toward zero, negative values to 0 (lengths stay below 2^31)
F64ToUsize(x) == IF x.neg THEN 0 ELSE BToNat(F64Trunc(x))

\* x as i16: toward zero, saturating
I16_MAX == 32767
I16_MIN == -32768
ToI16(neg, t) ==
  IF neg THEN (IF BLeq(BFromNat(-I16_MIN), t) THEN I16_MIN ELSE -BToNat(t))
  ELSE (IF BLeq(BFromNat(I16_MAX), t) THEN I16_MAX ELSE BToNat(t))
F64ToI16(x) == ToI16(x.neg, F64Trunc(x))

\* --------------------------------------------- resample_linear (resample.rs)
\* line 110: ratio = from_rate as f64 / to_rate as f64
Ratio(from_rate, to_rate) == F64Div(F64FromInt(from_rate), F64FromInt(to_rate))

\* faulty variant: the input length is multiplied by the ratio
NewLenTimes(input_len, r) == F64ToUsize(F64Mul(F64FromInt(input_len), r))

\* line 111: new_len = (input.len() as f64 / ratio) as usize
NewLen(input_len, r) == F64ToUsize(F64Div(F64FromInt(input_len), r))

\* lines 125-127: (y0 + (y1 - y0) * frac) as i16
Interpolate(y0, y1, frac) == F64ToI16(F64Add(y0, F64Mul(F64Sub(y1, y0), frac)))

\* faulty variant: the sample at src_idx is repeated, nothing is interpolated
SampleAtHold(input, src_pos, src_idx) == input[Min(src_idx + 1, Len(input))]
\* lines 121-132 for src_pos and src_idx = src_pos as usize (input is
\* indexed from 1 here)
SampleAt(input, src_pos, src_idx) ==
  IF src_idx + 1 < Len(input)
  THEN Interpolate(F64FromInt(input[src_idx + 1]), F64FromInt(input[src_idx + 2]),
                   F64Sub(src_pos, F64FromInt(src_idx)))
  ELSE input[Len(input)]
SampleAtPos(input, src_pos) == SampleAt(input, src_pos, F64ToUsize(src_pos))

\* line 120: src_pos = i as f64 * ratio
LinearSample(input, r, i) == SampleAtPos(input, F64Mul(F64FromInt(i), r))

\* lines 117-135: the output vector
LinearOutput(input, r, n) == <<>> \o [k \in 1..n |-> LinearSample(input, r, k - 1)]

\* ------------------------------------------ stereo to mono (audio.rs 205-211)
\* faulty variant: the quotient is rounded down
TruncDivFloor(a, b) == a \div b
\* integer division of Rust: toward zero
TruncDiv(a, b) == IF a >= 0 THEN a \div b ELSE -((-a) \div b)

\* n as i16 (wrapping)
AsI16(n) == ((n - I16_MIN) % (2 * (I16_MAX + 1))) + I16_MIN

\* chunk.iter().map(|&s| s as i32).sum::<i32>()
RECURSIVE Sum(_)
Sum(chunk) == IF chunk = <<>> THEN 0 ELSE chunk[1] + Sum(Tail(chunk))

\* data.chunks(channels): the last chunk holds what is left
Chunks(data, channels) ==
  [k \in 1..((Len(data) + channels - 1) \div channels) |->
     SubSeq(data, (k - 1) * channels + 1, Min(k * channels, Len(data)))]

Downmix(data, channels) ==
  <<>> \o [k \in DOMAIN Chunks(data, channels) |->
             AsI16(TruncDiv(Sum(Chunks(data, channels)[k]), channels))]

\* lines 205-211: mono
Mono(data, channels) == IF channels > 1 THEN Downmix(data, channels) ELSE data

\* ------------------------------- the conversions as calls (DspSpec)
\* The conversion functions are followed call by call, statement by
\* statement: convert_i16_to_16k_mono as the capture callback calls it, and
\* resample as any caller may.  METHOD is read once from the environment;
\* SINC_RESAMPLER lives across the calls.
MaxLen == 5
TEST_LEN == 4800
TARGET_RATE == 16000
SINC_MIN_CHUNK == 1024

Methods == {"Linear", "Sinc"}

\* the sample sequences of the calls: prefixes of three waveforms, and the
\* sawtooth of tests::test_linear_downsample
Waveforms == {"ramp", "swing", "odd"}
Sample(w, k) ==
  CASE w = "ramp"  -> 160 * k - 320
    [] w = "swing" -> IF k % 2 = 1 THEN I16_MAX ELSE I16_MIN
    [] OTHER       -> IF k % 2 = 1 THEN -7 * k ELSE 3 * k
Signal(w, n) == <<>> \o [k \in 1..n |-> Sample(w, k)]
TestInput == <<>> \o [k \in 1..TEST_LEN |-> (k - 1) % 1000]

DeviceRates == {16000, 44100, 48000}
DeviceChannels == {1, 2, 3}
RatePairs == {<<48000, 16000>>, <<44100, 16000>>, <<16000, 48000>>, <<5, 29>>,
              <<16000, 16000>>, <<44100, 44100>>}

Args(entry, data, channels, from_rate, to_rate) ==
  [entry |-> entry, data |-> data, channels |-> channels,
   from_rate |-> from_rate, to_rate |-> to_rate]
NoArgs == Args("none", <<>>, 1, TARGET_RATE, TARGET_RATE)

\* whole frames, as the device delivers them
FrameCounts(c) == 0..(MaxLen \div c)
ConvertCalls ==
  UNION {{Args("convert", Signal(w, n * c), c, r, TARGET_RATE) :
            w \in Waveforms, r \in DeviceRates, n \in FrameCounts(c)} : c \in DeviceChannels}
ResampleCalls ==
  {Args("resample", Signal(w, n), 1, p[1], p[2]) :
     w \in Waveforms, n \in 0..MaxLen, p \in RatePairs}
TestCall == Args("resample", TestInput, 1, 48000, TARGET_RATE)

\* no call is in progress and none was made
DspIdle ==
  /\ sinc_resampler = <<>>
  /\ dsp_pc = "idle"
  /\ call = NoArgs
  /\ path = "none"
  /\ mono = <<>>
  /\ ratio = F64Zero
  /\ new_len = 0
  /\ output = <<>>

\* what the conversions leave alone
dspFrame == <<pipelineVars, stop_flag, appVars, method, credVars, keyVars>>

\* the call reaches pc
DspGoto(pc) ==
  /\ dsp_pc' = pc
  /\ UNCHANGED <<call, path, mono, ratio, new_len, output, sinc_resampler>>
  /\ UNCHANGED dspFrame

\* the call returns out, computed by the path p
DspDone(p, out) ==
  /\ dsp_pc' = "done"
  /\ path' = p
  /\ output' = out
  /\ UNCHANGED <<call, mono, ratio, new_len, sinc_resampler>>
  /\ UNCHANGED dspFrame

\* the capture callback calls convert_i16_to_16k_mono(data, sample_rate, channels)
CallConvert ==
  /\ dsp_pc = "idle"
  /\ \E a \in ConvertCalls : call' = a
  /\ dsp_pc' = "mono"
  /\ UNCHANGED <<path, mono, ratio, new_len, output, sinc_resampler>>
  /\ UNCHANGED dspFrame

\* audio.rs 205-211: the frames are averaged, or a single channel is copied
ConvertMono ==
  /\ dsp_pc = "mono"
  /\ mono' = Mono(call.data, call.channels)
  /\ dsp_pc' = "resample"
  /\ UNCHANGED <<call, path, ratio, new_len, output, sinc_resampler>>
  /\ UNCHANGED dspFrame

\* a caller calls resample(input, from_rate, to_rate)
CallResample ==
  /\ dsp_pc = "idle"
  /\ \E a \in ResampleCalls \cup {TestCall} : call' = a /\ mono' = a.data
  /\ dsp_pc' = "resample"
  /\ UNCHANGED <<path, ratio, new_len, output, sinc_resampler>>
  /\ UNCHANGED dspFrame

\* faulty variant: the rates are not compared
SameRateNever(from_rate, to_rate) == FALSE
\* resample lines 91-93
SameRate(from_rate, to_rate) == from_rate = to_rate
\* resample lines 91-98: equal rates return the input; otherwise the method
\* selects the algorithm
\* resample lines 91-98: equal rates return the input; otherwise the method
\* selects the algorithm
Resample ==
  /\ dsp_pc = "resample"
  /\ IF SameRate(call.from_rate, call.to_rate) THEN DspDone("same", mono)
     ELSE IF method = "Linear" THEN DspGoto("linear")
     ELSE DspGoto("sinc")

\* resample_linear as a function of its arguments (lines 102-136)
ResampleLinear(input, from_rate, to_rate) ==
  IF Len(input) <= 1 THEN input
  ELSE LET r == Ratio(from_rate, to_rate)
           n == NewLen(Len(input), r)
       IN IF n = 0 THEN <<>> ELSE LinearOutput(input, r, n)

\* faulty variant: the ratio is taken from the stored Sinc resampler, if any
LinearStartStored ==
  /\ dsp_pc = "linear"
  /\ IF Len(mono) <= 1 THEN DspDone("linear", mono)
     ELSE /\ ratio' = IF sinc_resampler = <<>>
                      THEN Ratio(call.from_rate, call.to_rate)
                      ELSE Ratio(sinc_resampler[1].from_rate, sinc_resampler[1].to_rate)
          /\ dsp_pc' = "len"
          /\ UNCHANGED <<call, path, mono, new_len, output, sinc_resampler>>
          /\ UNCHANGED dspFrame

\* resample_linear lines 103-110: an empty or single-sample input is
\* returned as it is; otherwise the ratio is computed
LinearStart ==
  /\ dsp_pc = "linear"
  /\ IF Len(mono) <= 1 THEN DspDone("linear", mono)
     ELSE /\ ratio' = Ratio(call.from_rate, call.to_rate)
          /\ dsp_pc' = "len"
          /\ UNCHANGED <<call, path, mono, new_len, output, sinc_resampler>>
          /\ UNCHANGED dspFrame

\* lines 111-115: the output length; nothing is produced when it is zero
LinearLen ==
  /\ dsp_pc = "len"
  /\ new_len' = NewLen(Len(mono), ratio)
  /\ IF new_len' = 0
     THEN /\ dsp_pc' = "done"
          /\ path' = "linear"
          /\ output' = <<>>
     ELSE /\ dsp_pc' = "loop"
          /\ UNCHANGED <<path, output>>
  /\ UNCHANGED <<call, mono, ratio, sinc_resampler>>
  /\ UNCHANGED dspFrame

\* lines 117-135: one sample for every output index
LinearLoop ==
  /\ dsp_pc = "loop"
  /\ DspDone("linear", LinearOutput(mono, ratio, new_len))

\* resample_sinc, lines 139-170: an empty input returns at once; the stored
\* resampler is kept when it was made for these rates, otherwise one is
\* created in its place, or the creation fails and the call falls back to
\* resample_linear.
\* The stored SincResampler: its rates and chunk size, whether it has
\* processed input since it was created (history: "fresh", "used") and the
\* rates of the resampler it replaced (prior: <<>> when there was none).
SincStored(from_rate, to_rate, chunk_size, prior) ==
  [from_rate |-> from_rate, to_rate |-> to_rate, chunk_size |-> chunk_size,
   history |-> "fresh", prior |-> prior]
Rates(stored) ==
  IF stored = <<>> THEN <<>> ELSE <<stored[1].from_rate, stored[1].to_rate>>

\* faulty variant: a resampler, once stored, serves every rate pair
NeedRecreateFirst(stored, from_rate, to_rate) == stored = <<>>

\* faulty variant: a failure returns silence
FallbackEmpty(stored) ==
  /\ dsp_pc' = "done"
  /\ path' = "linear"
  /\ output' = <<>>
  /\ sinc_resampler' = stored
  /\ UNCHANGED <<call, mono, ratio, new_len>>
  /\ UNCHANGED dspFrame

\* lines 165-168 and 187-190: return resample_linear(input, from_rate, to_rate),
\* the resampler left as stored
Fallback(stored) ==
  /\ dsp_pc' = "linear"
  /\ sinc_resampler' = stored
  /\ UNCHANGED <<call, path, mono, ratio, new_len, output>>
  /\ UNCHANGED dspFrame

\* lines 150-153: need_recreate
NeedRecreate(stored, from_rate, to_rate) ==
  IF stored = <<>> THEN TRUE
  ELSE stored[1].from_rate # from_rate \/ stored[1].to_rate # to_rate
SincStart ==
  /\ dsp_pc = "sinc"
  /\ IF mono = <<>> THEN DspDone("sinc", <<>>)
     ELSE IF NeedRecreate(sinc_resampler, call.from_rate, call.to_rate)
     THEN \E created \in BOOLEAN :
            IF created
            THEN /\ sinc_resampler' = <<SincStored(call.from_rate, call.to_rate,
                                                   Max(Len(mono), SINC_MIN_CHUNK),
                                                   Rates(sinc_resampler))>>
                 /\ dsp_pc' = "process"
                 /\ UNCHANGED <<call, path, mono, ratio, new_len, output>>
                 /\ UNCHANGED dspFrame
            ELSE Fallback(sinc_resampler)
     ELSE DspGoto("process")

\* the resampler after process has run on it
Fed(stored) == <<[stored[1] EXCEPT !.history = "used"]>>

\* lines 173-191: the stored resampler processes the input (rubato: any
\* samples may come out), or fails, having consumed the input or not, and the
\* call falls back to resample_linear
SincSamples == {I16_MIN, 0, I16_MAX}
SincProcess ==
  /\ dsp_pc = "process"
  /\ IF sinc_resampler = <<>> THEN Fallback(sinc_resampler)
     ELSE \/ /\ \E n \in 0..MaxLen, s \in SincSamples :
                  output' = <<>> \o [k \in 1..n |-> s]
             /\ dsp_pc' = "done"
             /\ path' = "sinc"
             /\ sinc_resampler' = Fed(sinc_resampler)
             /\ UNCHANGED <<call, mono, ratio, new_len>>
             /\ UNCHANGED dspFrame
          \/ \E stored \in {sinc_resampler, Fed(sinc_resampler)} : Fallback(stored)

\* the call returns
DspReturn ==
  /\ dsp_pc = "done"
  /\ dsp_pc' = "idle"
  /\ call' = NoArgs
  /\ path' = "none"
  /\ mono' = <<>>
  /\ ratio' = F64Zero
  /\ new_len' = 0
  /\ output' = <<>>
  /\ UNCHANGED sinc_resampler
  /\ UNCHANGED dspFrame

\* ------------------------------------- the credential cache (doubao_cdp.rs)
\* CredSpec follows the cache across several acquisitions: every
\* run_asr_session and every test_connection (a command of the settings
\* window, lib.rs 292) reads and writes the same statics.
MaxTasks == 3

Commands == {"run_asr_session", "test_connection"}

\* one invocation: its position ("init","fetching","evaluating","connecting",
\* "running","returned"), where its credential came from ("none","cache",
\* "fetch"), the cookie snapshot it holds (0: none) and what had been
\* dropped from the cache when it started
Task(fn, pc, source, cookie, stale) ==
  [fn |-> fn, pc |-> pc, source |-> source, cookie |-> cookie, stale |-> stale]

\* clear_cached_cookies, called by the function by, removed the snapshot cookie
Drop(cookie, by) == [cookie |-> cookie, by |-> by]

\* no acquisition was followed
CredIdle ==
  /\ acquired = 0
  /\ dropped = {}
  /\ tasks = <<>>
  /\ startup_pc = "waiting"

credFrame == <<env, stop_flag, capVars, audio_q, fwd_pc, sendVars, recvVars, sessVars,
               appVars, dspVars, keyVars, startup_pc>>
startupFrame == <<env, stop_flag, capVars, audio_q, fwd_pc, sendVars, recvVars, sessVars,
                  appVars, dspVars, keyVars, cachedCookies, cachedAsrRequest, clearCount,
                  acquired, dropped, tasks>>

SetTask(i, t) ==
  /\ tasks' = [tasks EXCEPT ![i] = t]
  /\ UNCHANGED credFrame

\* lib.rs 397-402: the startup task captures the ASR URL by a click and
\* caches its parameters; on an error it ends
StartupCapture ==
  /\ startup_pc = "waiting"
  /\ \E ok \in BOOLEAN :
       /\ cachedUrlParams' = (cachedUrlParams \/ ok)
       /\ startup_pc' = IF ok THEN "login" ELSE "done"
  /\ UNCHANGED cachedLoginStatus
  /\ UNCHANGED startupFrame

\* lib.rs 406-414: it checks the login status and caches it, unless the
\* check fails
StartupLogin ==
  /\ startup_pc = "login"
  /\ \E status \in {"none", "in", "out"} :
       cachedLoginStatus' = IF status = "none" THEN cachedLoginStatus ELSE status
  /\ startup_pc' = "done"
  /\ UNCHANGED cachedUrlParams
  /\ UNCHANGED startupFrame

\* the user releases a recording (lib.rs 157) or presses "test" (lib.rs 292)
TaskStart ==
  /\ Len(tasks) < MaxTasks
  /\ \E fn \in Commands :
       tasks' = Append(tasks, Task(fn, "init", "none", 0, dropped))
  /\ UNCHANGED <<cacheVars, acquired, dropped>>
  /\ UNCHANGED credFrame

\* doubao_asr.rs 33-42 and 259-267: both caches present -> use them;
\* otherwise call fetch_asr_info_auto
TaskAcquire(i) ==
  /\ tasks[i].pc = "init"
  /\ IF cachedCookies /\ cachedAsrRequest
     THEN SetTask(i, [tasks[i] EXCEPT !.pc = "connecting", !.source = "cache",
                                      !.cookie = acquired])
     ELSE SetTask(i, [tasks[i] EXCEPT !.pc = "fetching", !.source = "fetch"])
  /\ UNCHANGED <<cacheVars, acquired, dropped>>

\* fetch_asr_info_auto, doubao_cdp.rs 609-689: an error before line 689
\* returns it; otherwise the cookie read from the browser is cached
TaskFetchCookie(i) ==
  /\ tasks[i].pc = "fetching"
  /\ \E ok \in BOOLEAN :
       IF ok
       THEN /\ cachedCookies' = TRUE
            /\ acquired' = acquired + 1
            /\ SetTask(i, [tasks[i] EXCEPT !.pc = "evaluating", !.cookie = acquired + 1])
       ELSE /\ SetTask(i, [tasks[i] EXCEPT !.pc = "returned"])
            /\ UNCHANGED <<cachedCookies, acquired>>
  /\ UNCHANGED <<cachedAsrRequest, cachedUrlParams, cachedLoginStatus, clearCount, dropped>>

\* fetch_asr_info_auto, doubao_cdp.rs 691-791: an error after line 689
\* returns it; otherwise the request is cached (line 788)
TaskFetchRequest(i) ==
  /\ tasks[i].pc = "evaluating"
  /\ \E ok \in BOOLEAN, captured \in BOOLEAN :
       /\ cachedAsrRequest' = (cachedAsrRequest \/ ok)
       /\ cachedUrlParams' = UrlParamsAfterFetch(cachedUrlParams, ok, captured)
       /\ SetTask(i, [tasks[i] EXCEPT !.pc = IF ok THEN "connecting" ELSE "returned"])
  /\ UNCHANGED <<cachedCookies, cachedLoginStatus, clearCount, acquired, dropped>>

\* doubao_asr.rs 61-65 and 287-289: connect_async
TaskConnect(i) ==
  /\ tasks[i].pc = "connecting"
  /\ \E ok \in BOOLEAN :
       SetTask(i, [tasks[i] EXCEPT !.pc = IF ok THEN "running" ELSE "returned"])
  /\ UNCHANGED <<cacheVars, acquired, dropped>>

\* doubao_asr.rs 185-195 and 308-315: the service reports an error and the
\* function calls clear_cached_cookies before it ends
TaskServiceError(i) ==
  /\ tasks[i].pc = "running"
  /\ SetCaches(ClearCachedCookies(Caches))
  /\ clearCount' = clearCount + 1
  /\ dropped' = IF cachedCookies THEN dropped \cup {Drop(acquired, tasks[i].fn)} ELSE dropped
  /\ SetTask(i, [tasks[i] EXCEPT !.pc = "returned"])
  /\ UNCHANGED acquired

\* the function ends in any other way
TaskEnd(i) ==
  /\ tasks[i].pc = "running"
  /\ SetTask(i, [tasks[i] EXCEPT !.pc = "returned"])
  /\ UNCHANGED <<cacheVars, acquired, dropped>>

\* ------------------------- the Windows long-press monitor (fn_key.rs 162-258)
\* The hook runs on the monitor's thread, one keyboard message at a time.
\* The trigger key is pressed, repeats while it is held, and is released;
\* the clock advances between the messages.
MaxPresses == 3
MaxTicks == 6
TickMs == 100
StartMs == 1000
LONG_PRESS_THRESHOLD_MS == 200

Callback(v, press) == [v |-> v, press |-> press]

\* the statics as they are initialised, before any key message
KeyIdle ==
  /\ is_pressed = FALSE
  /\ long_press_triggered = FALSE
  /\ press_time_ms = 0
  /\ clock_ms = StartMs
  /\ key_down = FALSE
  /\ down_at = 0
  /\ presses = 0
  /\ cb_calls = <<>>

keyFrame == <<pipelineVars, stop_flag, appVars, dspVars, credVars>>

\* faulty variant: LONG_PRESS_TRIGGERED is not consulted
LongPressReachedAgain(triggered, press_time, now) ==
  press_time > 0 /\ now - press_time > LONG_PRESS_THRESHOLD_MS

\* lines 216-220: a repeat starts the recording when the long press has not
\* been triggered, a press time is stored and more than the threshold elapsed
LongPressReached(triggered, press_time, now) ==
  ~triggered /\ press_time > 0 /\ now - press_time > LONG_PRESS_THRESHOLD_MS

\* lines 209-231: WM_KEYDOWN | WM_SYSKEYDOWN of VK_RMENU, during the press p
HookKeyDown(p) ==
  IF ~is_pressed
  THEN /\ is_pressed' = TRUE
       /\ long_press_triggered' = FALSE
       /\ press_time_ms' = clock_ms
       /\ UNCHANGED cb_calls
  ELSE IF LongPressReached(long_press_triggered, press_time_ms, clock_ms)
  THEN /\ long_press_triggered' = TRUE
       /\ cb_calls' = Append(cb_calls, Callback(TRUE, p))
       /\ UNCHANGED <<is_pressed, press_time_ms>>
  ELSE UNCHANGED <<is_pressed, long_press_triggered, press_time_ms, cb_calls>>

\* lines 232-249: WM_KEYUP | WM_SYSKEYUP of VK_RMENU, during the press p
HookKeyUp(p) ==
  IF is_pressed
  THEN /\ is_pressed' = FALSE
       /\ cb_calls' = IF long_press_triggered THEN Append(cb_calls, Callback(FALSE, p))
                      ELSE cb_calls
       /\ press_time_ms' = 0
       /\ UNCHANGED long_press_triggered
  ELSE UNCHANGED <<is_pressed, long_press_triggered, press_time_ms, cb_calls>>

\* the key goes down: the first key-down message of a press
KeyDown ==
  /\ ~key_down
  /\ presses < MaxPresses
  /\ key_down' = TRUE
  /\ down_at' = clock_ms
  /\ presses' = presses + 1
  /\ HookKeyDown(presses')
  /\ UNCHANGED clock_ms
  /\ UNCHANGED keyFrame

\* the key is held: the keyboard repeats the key-down message
KeyRepeat ==
  /\ key_down
  /\ HookKeyDown(presses)
  /\ UNCHANGED <<clock_ms, key_down, down_at, presses>>
  /\ UNCHANGED keyFrame

\* the key is released
KeyUp ==
  /\ key_down
  /\ key_down' = FALSE
  /\ HookKeyUp(presses)
  /\ UNCHANGED <<clock_ms, down_at, presses>>
  /\ UNCHANGED keyFrame

\* time passes
Tick ==
  /\ clock_ms < StartMs + MaxTicks * TickMs
  /\ clock_ms' = clock_ms + TickMs
  /\ UNCHANGED <<is_pressed, long_press_triggered, press_time_ms, key_down, down_at,
                 presses, cb_calls>>
  /\ UNCHANGED keyFrame

\* ------------------------------------------------------------ specification
\* one session at the moment run_stt is spawned
PipelineInit ==
  /\ env \in Environments
  /\ cachedCookies \in BOOLEAN
  /\ cachedAsrRequest \in BOOLEAN
  /\ cachedUrlParams = FALSE
  /\ cachedLoginStatus = "none"
  /\ clearCount = 0
  /\ stop_flag = FALSE
  /\ sess_pc = "init"
  /\ result = "none"
  /\ cap_pc = "starting"
  /\ buf = [first |-> 0, len |-> 0]
  /\ nCallbacks = 0
  /\ produced = <<>>
  /\ audio_chan = <<>>
  /\ audio_q = <<>>
  /\ fwd_pc = "idle"
  /\ send_pc = "idle"
  /\ wire = <<>>
  /\ writeFailed = FALSE
  /\ finishAttempts = 0
  /\ stopSeen = FALSE
  /\ recv_pc = "idle"
  /\ final_text = ""
  /\ finish_timeout = "none"
  /\ armCount = 0
  /\ expired = FALSE
  /\ consumed = <<>>
  /\ calls = <<>>
  /\ recv_exit = "none"
  /\ DspIdle
  /\ CredIdle
  /\ KeyIdle

\* on_fn_pressed has set IS_RECORDING and spawned the session
Init ==
  /\ PipelineInit
  /\ is_recording = TRUE
  /\ runs = <<>>
  /\ method = "Linear"

Next ==
  \/ CaptureStart
  \/ CaptureFail
  \/ CaptureCallback
  \/ CaptureFlush
  \/ CaptureExit
  \/ SetStop
  \/ SessionAcquire
  \/ SessionConnect
  \/ SessionJoin
  \/ ForwardRelay
  \/ ForwardStop
  \/ ForwardDisconnected
  \/ SendChunk
  \/ SendIdle
  \/ SendPoll
  \/ RecvTop
  \/ RecvItem
  \/ RecvPollTimeout
  \/ TimerExpire

Spec == Init /\ [][Next]_vars

\* the three tasks of a connected session run under the tokio scheduler: a
\* task that can take a step eventually takes one; time passes; the join
\* completes once the three tasks have ended
Fairness ==
  /\ WF_vars(ForwardRelay \/ ForwardStop \/ ForwardDisconnected)
  /\ WF_vars(SendChunk \/ SendIdle \/ SendPoll)
  /\ WF_vars(RecvTop \/ RecvPollTimeout)
  /\ WF_vars(TimerExpire)
  /\ WF_vars(SessionJoin)

\* liveness is explored in the busy-microphone environment
InitFair == Init /\ env.callbacks = MaxCallbacks

FairSpec == InitFair /\ [][Next]_vars /\ Fairness

\* ------------------------------------- the trigger handlers (lib.rs 60-174)
\* Every press that passes the IS_RECORDING guard spawns one run_stt on the
\* runtime; the runs share the one STOP_FLAG.  A run is followed through the
\* places where it reads the flag: stt is the position of run_stt, cap the
\* capture thread, fwd, send and recv the three tasks of run_asr_session.
MaxRuns == 2

NewRun == [stt |-> "spawned", cap |-> "none", fwd |-> "idle", send |-> "idle", recv |-> "idle"]

\* on_fn_pressed: return when the desktop client is not reachable or when
\* IS_RECORDING.swap(true) was already set; otherwise STOP_FLAG.store(false)
\* and RUNTIME.spawn(run_stt)
OnFnPressed ==
  /\ Len(runs) < MaxRuns
  /\ \E doubao_running \in BOOLEAN :
       IF doubao_running /\ ~is_recording
       THEN /\ is_recording' = TRUE
            /\ stop_flag' = FALSE
            /\ runs' = Append(runs, NewRun)
       ELSE UNCHANGED <<is_recording, stop_flag, runs>>
  /\ UNCHANGED <<pipelineVars, dspVars, credVars, keyVars>>

\* faulty variant: the stop flag is stored without looking at IS_RECORDING
OnFnReleasedAlways ==
  /\ is_recording' = FALSE
  /\ stop_flag' = TRUE
  /\ UNCHANGED runs
  /\ UNCHANGED <<pipelineVars, dspVars, credVars, keyVars>>

\* on_fn_released: return when IS_RECORDING.swap(false) was clear; otherwise
\* STOP_FLAG.store(true)
OnFnReleased ==
  /\ IF is_recording
     THEN /\ is_recording' = FALSE
          /\ stop_flag' = TRUE
     ELSE UNCHANGED <<is_recording, stop_flag>>
  /\ UNCHANGED runs
  /\ UNCHANGED <<pipelineVars, dspVars, credVars, keyVars>>

\* run i moves to r, nothing else changes
SetRun(i, r) ==
  /\ runs' = [runs EXCEPT ![i] = r]
  /\ UNCHANGED <<is_recording, stop_flag>>
  /\ UNCHANGED <<pipelineVars, dspVars, credVars, keyVars>>

\* run_stt lines 116-129: start_recording spawns the capture thread, or fails
\* and run_stt returns
RunStartRecording(i) ==
  /\ runs[i].stt = "spawned"
  /\ \E ok \in BOOLEAN :
       SetRun(i, IF ok THEN [runs[i] EXCEPT !.stt = "session", !.cap = "starting"]
                       ELSE [runs[i] EXCEPT !.stt = "ended"])

\* audio.rs 95-173: the thread builds and plays the stream, or returns
RunCaptureStart(i) ==
  /\ runs[i].cap = "starting"
  /\ \E ok \in BOOLEAN :
       SetRun(i, [runs[i] EXCEPT !.cap = IF ok THEN "recording" ELSE "failed"])

\* run_asr_session lines 32-125: credentials and handshake; on success the
\* three tasks run, on failure the call returns Err
RunConnect(i) ==
  /\ runs[i].stt = "session"
  /\ runs[i].recv = "idle"
  /\ \E ok \in BOOLEAN :
       SetRun(i, IF ok THEN [runs[i] EXCEPT !.fwd = "run", !.send = "run", !.recv = "run"]
                       ELSE [runs[i] EXCEPT !.stt = "joining"])

\* audio.rs 175-190: the capture loop loads the flag, finds it set, flushes
\* and the thread ends
RunCaptureStop(i) ==
  /\ runs[i].cap = "recording"
  /\ stop_flag
  /\ SetRun(i, [runs[i] EXCEPT !.cap = "done"])

\* forward_task: a receive timeout with the flag set, or every sender dropped
RunForwardEnd(i) ==
  /\ runs[i].fwd = "run"
  /\ stop_flag \/ runs[i].cap \in {"done", "failed"}
  /\ SetRun(i, [runs[i] EXCEPT !.fwd = "done"])

\* send_task: the 50 ms poll finds the flag set (finish frame, break), or a
\* write of a binary frame fails (break)
RunSendEnd(i) ==
  /\ runs[i].send = "run"
  /\ \E write_failed \in BOOLEAN :
       /\ stop_flag \/ write_failed
       /\ SetRun(i, [runs[i] EXCEPT !.send = "done"])

\* recv_task lines 135-138: the flag is found set and the deadline is armed
RunRecvArm(i) ==
  /\ runs[i].recv = "run"
  /\ stop_flag
  /\ SetRun(i, [runs[i] EXCEPT !.recv = "armed"])

\* recv_task: a finish event, an error event, a close, the end of the stream
\* or a receive error at any time; the deadline once it is armed
RunRecvEnd(i) ==
  /\ runs[i].recv \in {"run", "armed"}
  /\ SetRun(i, [runs[i] EXCEPT !.recv = "done"])

\* run_asr_session lines 235-238: the three tasks are joined
RunSessionJoin(i) ==
  /\ runs[i].stt = "session"
  /\ runs[i].fwd = "done" /\ runs[i].send = "done" /\ runs[i].recv = "done"
  /\ SetRun(i, [runs[i] EXCEPT !.stt = "joining"])

\* run_stt line 165: audio_handle.join() returns once the capture thread ended
RunCaptureJoin(i) ==
  /\ runs[i].stt = "joining"
  /\ runs[i].cap \in {"done", "failed"}
  /\ SetRun(i, [runs[i] EXCEPT !.stt = "ended"])

\* the application has started and the trigger was never pressed
AppInit ==
  /\ PipelineInit
  /\ env.frames = 1
  /\ ~cachedCookies /\ ~cachedAsrRequest
  /\ is_recording = FALSE
  /\ runs = <<>>
  /\ method = "Linear"

AppNext ==
  \/ OnFnPressed
  \/ OnFnReleased
  \/ \E i \in 1..Len(runs) : RunStartRecording(i)
  \/ \E i \in 1..Len(runs) : RunCaptureStart(i)
  \/ \E i \in 1..Len(runs) : RunConnect(i)
  \/ \E i \in 1..Len(runs) : RunCaptureStop(i)
  \/ \E i \in 1..Len(runs) : RunForwardEnd(i)
  \/ \E i \in 1..Len(runs) : RunSendEnd(i)
  \/ \E i \in 1..Len(runs) : RunRecvArm(i)
  \/ \E i \in 1..Len(runs) : RunRecvEnd(i)
  \/ \E i \in 1..Len(runs) : RunSessionJoin(i)
  \/ \E i \in 1..Len(runs) : RunCaptureJoin(i)

AppSpec == AppInit /\ [][AppNext]_vars

\* the threads and tasks of a run are scheduled: a run that can take a step
\* eventually takes one.  Nothing is assumed about the user.
RunStep(i) ==
  /\ i \in 1..Len(runs)
  /\ \/ RunStartRecording(i)
     \/ RunCaptureStart(i)
     \/ RunConnect(i)
     \/ RunCaptureStop(i)
     \/ RunForwardEnd(i)
     \/ RunSendEnd(i)
     \/ RunRecvArm(i)
     \/ RunRecvEnd(i)
     \/ RunSessionJoin(i)
     \/ RunCaptureJoin(i)
AppFairness == \A i \in 1..MaxRuns : WF_vars(RunStep(i))
AppFairSpec == AppSpec /\ AppFairness

\* the application has started; no conversion was called
DspInit ==
  /\ PipelineInit
  /\ env.frames = 1
  /\ ~cachedCookies /\ ~cachedAsrRequest
  /\ is_recording = FALSE
  /\ runs = <<>>
  /\ method \in Methods

DspNext ==
  \/ CallConvert
  \/ ConvertMono
  \/ CallResample
  \/ Resample
  \/ LinearStart
  \/ LinearLen
  \/ LinearLoop
  \/ SincStart
  \/ SincProcess
  \/ DspReturn

DspSpec == DspInit /\ [][DspNext]_vars

\* the application has started: the statics are None
CredInit ==
  /\ PipelineInit
  /\ env.frames = 1
  /\ ~cachedCookies /\ ~cachedAsrRequest
  /\ is_recording = FALSE
  /\ runs = <<>>
  /\ method = "Linear"

CredNext ==
  \/ StartupCapture
  \/ StartupLogin
  \/ TaskStart
  \/ \E i \in 1..Len(tasks) : TaskAcquire(i)
  \/ \E i \in 1..Len(tasks) : TaskFetchCookie(i)
  \/ \E i \in 1..Len(tasks) : TaskFetchRequest(i)
  \/ \E i \in 1..Len(tasks) : TaskConnect(i)
  \/ \E i \in 1..Len(tasks) : TaskServiceError(i)
  \/ \E i \in 1..Len(tasks) : TaskEnd(i)

CredSpec == CredInit /\ [][CredNext]_vars

\* the key monitor from the moment the hook is installed
KeyInit ==
  /\ PipelineInit
  /\ env.frames = 1
  /\ ~cachedCookies /\ ~cachedAsrRequest
  /\ is_recording = FALSE
  /\ runs = <<>>
  /\ method = "Linear"

KeyNext ==
  \/ KeyDown
  \/ KeyRepeat
  \/ KeyUp
  \/ Tick

KeySpec == KeyInit /\ [][KeyNext]_vars

\* a run is active while its capture thread records or its run_asr_session
\* has not returned
Active(r) == r.cap \in {"starting", "recording"} \/ r.stt = "session"
ActiveRuns == {i \in 1..Len(runs) : Active(runs[i])}

\* ------------------------------------------------------------ observations
Count(s, P(_)) == Cardinality({i \in 1..Len(s) : P(s[i])})

IsFinalCall(c) == c[1] = "final"
NFinal == Count(calls, IsFinalCall)

IsFinishFrame(w) == w.type = "finish"
NFinishWritten == Count(wire, IsFinishFrame)

\* the chunks written as binary frames, in the order written
RECURSIVE BinaryChunks(_)
BinaryChunks(w) ==
  IF w = <<>> THEN <<>>
  ELSE IF Head(w).type = "binary" THEN <<Head(w).chunk>> \o BinaryChunks(Tail(w))
  ELSE BinaryChunks(Tail(w))

\* s can be obtained from t by deleting elements
RECURSIVE IsSubseq(_, _)
IsSubseq(s, t) ==
  IF s = <<>> THEN TRUE
  ELSE IF t = <<>> THEN FALSE
  ELSE IF Head(s) = Head(t) THEN IsSubseq(Tail(s), Tail(t))
  ELSE IsSubseq(s, Tail(t))

NoDuplicates(s) == \A i, j \in 1..Len(s) : i # j => s[i] # s[j]

\* kinds of inbound items, by their content
IsPartialItem(f) ==
  f.kind = "text" /\ f.json /\ f.event = "result" /\ f.text # <<>> /\ f.text[1] # ""
IsFinishItem(f) == f.kind = "text" /\ f.json /\ f.event = "finish"
HasNonzeroCode(f) == f.kind = "text" /\ f.json /\ f.code # <<>> /\ f.code[1] # 0
IsErrorItem(f) == HasNonzeroCode(f) /\ f.event = ""
IsClosingItem(f) == f.kind \in {"close", "end", "error"}

Connected == recv_pc # "idle"
SawPartial == \E i \in 1..Len(consumed) : IsPartialItem(consumed[i])

\* ------------------------------------------------------------------ claims

\* C1: a connected run that received a non-empty partial ends either with
\* on_final invoked (success) or with an error and on_final not invoked:
\* exactly one of the two.
C1_ExactlyOneOutcome ==
  (sess_pc = "returned" /\ Connected /\ SawPartial) =>
     LET success == NFinal >= 1 /\ result = "Ok"
         failure == NFinal = 0 /\ result = "Err"
     IN  (success \/ failure) /\ ~(success /\ failure)

\* C2: a run whose receiver got an event with a non-zero code (a
\* ServiceError) returns an error to its caller.
C2_ServiceErrorReturnsErr ==
  (sess_pc = "returned" /\ recv_exit = "error") => result = "Err"

\* C3 as stated: stop observed, a non-empty partial known and no finish event
\* received: on_final fires exactly once, with the last partial, and it is the
\* last callback (whichever path delivers it).
C3_FinalUnlessFinish ==
  (recv_pc = "done" /\ finish_timeout = "armed" /\ final_text # ""
     /\ \A i \in 1..Len(consumed) : ~IsFinishItem(consumed[i]))
  => /\ NFinal = 1
     /\ Last(calls) = <<"final", final_text>>

\* C3 amended: the same, when neither a finish event nor a close, an end of
\* the stream, a receive error or an error event (no event name, non-zero
\* code) was received before the deadline passed; the run then returns Ok.
C3_TimeoutFinal ==
  (recv_pc = "done" /\ finish_timeout = "armed" /\ final_text # ""
     /\ \A i \in 1..Len(consumed) :
          ~(IsFinishItem(consumed[i]) \/ IsClosingItem(consumed[i]) \/ IsErrorItem(consumed[i])))
  => /\ recv_exit = "timeout"
     /\ NFinal = 1
     /\ Last(calls) = <<"final", final_text>>
     /\ (sess_pc = "returned" => result = "Ok")

C3_Witness ==
  /\ sess_pc = "returned"
  /\ recv_exit = "timeout"
  /\ SawPartial
  /\ \A i \in 1..Len(consumed) :
       ~(IsFinishItem(consumed[i]) \/ IsClosingItem(consumed[i]) \/ IsErrorItem(consumed[i]))

\* C4: when the receiver was handed result events with non-empty texts
\* t1..tn (n >= 1) and then a finish event, the callbacks are exactly
\* on_partial(t1), ..., on_partial(tn), on_final(tn); the receiver is done and
\* the run returns Ok.
ResultsThenFinish(s) ==
  /\ Len(s) >= 2
  /\ IsFinishItem(Last(s))
  /\ \A i \in 1..(Len(s) - 1) : IsPartialItem(s[i])

ScriptedCalls(s) ==
  [i \in 1..Len(s) |->
     IF i < Len(s) THEN <<"partial", s[i].text[1]>>
     ELSE <<"final", s[Len(s) - 1].text[1]>>]

C4_PartialsThenFinal ==
  ResultsThenFinish(consumed) =>
    /\ calls = ScriptedCalls(consumed)
    /\ recv_pc = "done"
    /\ (sess_pc = "returned" => result = "Ok")

C4_Witness ==
  /\ consumed = <<ResultA, ResultAB, Finish>>
  /\ calls = << <<"partial", "A">>, <<"partial", "AB">>, <<"final", "AB">> >>
  /\ sess_pc = "returned"

\* C5: on_final is invoked at most once, and once it was invoked or the
\* receiver has ended, no callback is invoked again.
C5_NoCallbackAfterClosed ==
  /\ [](NFinal <= 1)
  /\ [][(NFinal >= 1 \/ recv_pc = "done") => calls' = calls]_vars

C5_Witness ==
  /\ recv_pc = "done"
  /\ NFinal = 1
  /\ sess_pc = "running"
  /\ Len(consumed) < env.frames

\* C6: every chunk the capturer produced, the flush at stop included, is
\* written as one binary frame (no write having failed).
C6_EveryChunkWritten ==
  (sess_pc = "returned" /\ result = "Ok" /\ cap_pc = "done" /\ ~writeFailed)
  => BinaryChunks(wire) = produced

\* C7: the binary frames written are an in-order subsequence, without
\* duplicates, of the chunks the capturer put on the channel.
C7_WireIsSubsequence ==
  /\ IsSubseq(BinaryChunks(wire), produced)
  /\ NoDuplicates(BinaryChunks(wire))

C7_Witness ==
  /\ Len(BinaryChunks(wire)) >= 2
  /\ Len(produced) >= 3

\* C8 as stated: when the sender observed the stop flag, exactly one finish
\* frame is on the connection.
C8_ExactlyOneFinishWritten ==
  (send_pc = "done" /\ stopSeen) => NFinishWritten = 1

\* C8 amended: when the sender observed the stop flag it sent the finish
\* frame exactly once and ended; at most one finish frame is on the
\* connection, exactly one unless that write failed, and none when the
\* sender never observed stop.
C8_OneFinishSent ==
  /\ finishAttempts <= 1
  /\ NFinishWritten <= finishAttempts
  /\ stopSeen => (send_pc = "done" /\ finishAttempts = 1)
  /\ (stopSeen /\ ~writeFailed) => NFinishWritten = 1
  /\ ~stopSeen => finishAttempts = 0

C8_Witness ==
  /\ stopSeen
  /\ ~writeFailed
  /\ Len(BinaryChunks(wire)) >= 1
  /\ Last(wire) = FinishFrame

C10_NonzeroCodeInvalidatesOnce ==
  (recv_pc = "done" /\ \E i \in 1..Len(consumed) : HasNonzeroCode(consumed[i]))
  => clearCount = 1

\* C11: in a run whose receiver got an event with a non-zero code, on_final
\* is never invoked, neither before nor after that event, whatever partials
\* were received and whatever ends the run afterwards.
C11_NonzeroCodeNoFinal ==
  (\E i \in 1..Len(consumed) : HasNonzeroCode(consumed[i])) => NFinal = 0

\* C12: at any moment at most one run (a capture thread with its
\* run_asr_session) is active, whatever the order of presses and releases.
C12_AtMostOneActiveRun == Cardinality(ActiveRuns) <= 1

\* C13: every chunk a hardware callback emits holds exactly CHUNK_SIZE
\* samples; over one capture at most one chunk is shorter, it is not empty,
\* and it is the one the flush at stop emits (none when the remainder is
\* empty); callbacks that run after the flush still emit only full chunks.
ShortChunks == {i \in 1..Len(produced) : produced[i].len # CHUNK_SIZE}

C13_FullChunksOneFlush ==
  /\ [](\A i \in 1..Len(produced) : produced[i].len > 0 /\ produced[i].len <= CHUNK_SIZE)
  /\ [](Cardinality(ShortChunks) <= 1)
  /\ [](cap_pc \in {"starting", "recording", "failed"} => ShortChunks = {})
  /\ [][cap_pc' = cap_pc =>
          \A i \in (Len(produced) + 1)..Len(produced') : produced'[i].len = CHUNK_SIZE]_vars

C13_Witness ==
  /\ cap_pc = "done"
  /\ \E i \in ShortChunks : i > 1 /\ i < Len(produced)

\* a linear resampling has returned
LinearReturned == dsp_pc = "done" /\ path = "linear"

\* C14: a linear resampling of N samples from rate A to rate B # A returns
\* exactly floor(N * B / A) samples, for every N (4800 samples from 48000 Hz
\* to 16000 Hz return 1600); the length depends on the arguments only, so it
\* is the same on every repeated call
C14_LinearLength ==
  LinearReturned => Len(output) = (Len(mono) * call.to_rate) \div call.from_rate

\* C15: resample called with equal rates returns its input unchanged,
\* whichever method is selected and whatever the input, empty or not
C15_SameRateIdentity ==
  dsp_pc = "done" /\ call.from_rate = call.to_rate =>
    /\ output = mono
    /\ call.entry = "resample" => output = call.data
C15_Witness ==
  /\ dsp_pc = "done"
  /\ method = "Sinc"
  /\ sinc_resampler # <<>>
  /\ call.from_rate = call.to_rate
  /\ output # <<>>

\* k is the floor of the f64 p >= 0
IsFloor(k, p) == ~F64Sub(p, F64FromInt(k)).neg /\ F64Sub(p, F64FromInt(k + 1)).neg

\* the sample the interpolation rule gives for the source position pos with
\* source index idx (0-based) in the input x
Interpolated(x, pos, idx) ==
  IF idx + 1 < Len(x)
  THEN F64ToI16(F64Add(F64FromInt(x[idx + 1]),
                       F64Mul(F64Sub(F64FromInt(x[idx + 2]), F64FromInt(x[idx + 1])),
                              F64Sub(pos, F64FromInt(idx)))))
  ELSE x[Len(x)]
FollowsRule(x, pos, idx, y) == IsFloor(idx, pos) /\ y = Interpolated(x, pos, idx)

\* C16: for a linear resampling of at least two samples, ratio is
\* from_rate / to_rate and every output index i, with src_idx the floor of
\* i * ratio and frac = i * ratio - src_idx, holds
\* input[src_idx] + (input[src_idx + 1] - input[src_idx]) * frac truncated to
\* an integer when src_idx + 1 < input_len, and the last input sample
\* otherwise (all in f64)
C16_Interpolation ==
  LinearReturned /\ Len(mono) >= 2 =>
    /\ ratio = F64Div(F64FromInt(call.from_rate), F64FromInt(call.to_rate))
    /\ \A i \in 0..(Len(output) - 1) :
         FollowsRule(mono, F64Mul(F64FromInt(i), ratio),
                     F64ToUsize(F64Mul(F64FromInt(i), ratio)), output[i + 1])
C16_Witness ==
  /\ LinearReturned
  /\ Len(output) > Len(mono)
  /\ Len(mono) >= 2
  /\ \E k \in 1..Len(output) : \A j \in 1..Len(mono) : output[k] # mono[j]
  /\ output[Len(output)] = mono[Len(mono)]
  /\ output[Len(output) - 1] = mono[Len(mono)]

\* the frame k of the call's data and the sum of its samples
Frame(k) == SubSeq(call.data, (k - 1) * call.channels + 1, k * call.channels)
FrameSum(k) == Sum(Frame(k))

\* q is s / c truncated toward zero
IsTruncatedQuotient(q, s, c) ==
  /\ q * c - s < c /\ s - q * c < c
  /\ s >= 0 => q >= 0 /\ q * c <= s
  /\ s <= 0 => q <= 0 /\ q * c >= s

\* C17: N frames of C > 1 channels are downmixed to exactly N mono samples,
\* each the integer average of its frame truncated toward zero; with one
\* channel the samples pass through unchanged
C17_Downmix ==
  call.entry = "convert" /\ dsp_pc \notin {"idle", "mono"} =>
    IF call.channels > 1
    THEN /\ Len(mono) * call.channels = Len(call.data)
         /\ \A k \in 1..Len(mono) : IsTruncatedQuotient(mono[k], FrameSum(k), call.channels)
    ELSE mono = call.data
C17_Witness ==
  /\ call.entry = "convert"
  /\ dsp_pc = "resample"
  /\ call.channels > 1
  /\ Len(mono) > 1
  /\ \E k \in 1..Len(mono) : FrameSum(k) < 0 /\ FrameSum(k) % call.channels # 0

\* the texts of the result events received so far that carry a text, in order
PartialItems == SelectSeq(consumed, IsPartialItem)
PartialTexts == [i \in 1..Len(PartialItems) |-> PartialItems[i].text[1]]
IsPartialCall(c) == c[1] = "partial"
PartialCalls == SelectSeq(calls, IsPartialCall)

\* C18: when the connection closes (Close frame or end of the stream) before
\* a finish event, the receiver invokes on_final exactly once, with the
\* current partial, if that partial is not empty, invokes nothing if it is
\* empty, and terminates
C18_CloseDeliversPartial ==
  /\ [](recv_exit \in {"close", "end"} =>
          /\ recv_pc = "done"
          /\ NFinal = IF final_text # "" THEN 1 ELSE 0
          /\ final_text # "" => Last(calls) = <<"final", final_text>>
          /\ final_text = "" => calls = <<>>)
  /\ [][consumed' # consumed /\ Last(consumed').kind \in {"close", "end"} =>
          /\ recv_exit' = Last(consumed').kind
          /\ NFinal = 0
          /\ calls' = calls \o FinalCall(final_text)]_vars
C18_Witness ==
  /\ recv_exit \in {"close", "end"}
  /\ Len(consumed) = 3
  /\ final_text = "AB"
  /\ calls = << <<"partial", "A">>, <<"partial", "AB">>, <<"final", "AB">> >>

\* C19: the current transcript is the text of the most recent result event
\* with a non-empty text (nothing is concatenated), on_partial is invoked
\* once for each such event, with its text, and a result event with an empty
\* text changes nothing and invokes no callback
C19_TranscriptIsLastPartial ==
  /\ [](final_text = IF PartialTexts = <<>> THEN "" ELSE Last(PartialTexts))
  /\ [](\A i \in 1..Len(PartialTexts) : PartialCalls[i] = <<"partial", PartialTexts[i]>>)
  /\ [](Len(PartialCalls) = Len(PartialTexts))
  /\ [][consumed' # consumed /\ Last(consumed') = ResultNone =>
          final_text' = final_text /\ calls' = calls]_vars
C19_Witness ==
  /\ consumed = <<ResultAB, ResultNone, ResultA>>
  /\ final_text = "A"
  /\ calls = << <<"partial", "AB">>, <<"partial", "A">> >>

\* C20: when no credentials are cached and their acquisition fails, or when
\* the handshake fails, run_asr_session returns Err and has started no task,
\* written no frame, read none and invoked no callback
NeverConnected ==
  /\ fwd_pc = "idle" /\ send_pc = "idle" /\ recv_pc = "idle"
  /\ wire = <<>> /\ consumed = <<>> /\ calls = <<>>
C20_StartupFailureReturnsErr ==
  /\ [](result = "Err" => sess_pc = "returned" /\ NeverConnected)
  /\ [](sess_pc = "returned" /\ recv_pc = "idle" => result = "Err")
  /\ [][sess_pc = "connecting" /\ sess_pc' = "returned" => result' = "Err" /\ NeverConnected']_vars
  /\ [][sess_pc = "init" /\ sess_pc' = "returned" =>
          ~(cachedCookies /\ cachedAsrRequest) /\ result' = "Err" /\ NeverConnected']_vars
C20_Witness ==
  /\ result = "Err"
  /\ cachedCookies /\ cachedAsrRequest
  /\ cap_pc = "done"
  /\ produced # <<>>

\* ------------------------------------------------------------------ C21
IsSession(t) == t.fn = "run_asr_session"
HasCredential(t) == t.pc \in {"connecting", "running"}

\* the invalidations by a session that preceded the start of t
SessionDrops(t) == {d \in t.stale : d.by = "run_asr_session"}

\* tasks[i] is the first run_asr_session started after a session's invalidation
NextSession(i) ==
  /\ IsSession(tasks[i])
  /\ SessionDrops(tasks[i]) # {}
  /\ \A j \in 1..(i - 1) :
       IsSession(tasks[j]) => SessionDrops(tasks[j]) # SessionDrops(tasks[i])

\* C21 as stated: the first session after a session's invalidation never
\* takes its credential from the cache, it calls fetch_asr_info_auto.
C21_NextSessionFetches ==
  \A i \in 1..Len(tasks) :
    NextSession(i) /\ tasks[i].source # "none" => tasks[i].source = "fetch"

\* C21: clear_cached_cookies leaves no cached cookie, an acquisition that finds
\* no cached cookie calls fetch_asr_info_auto, the cache is used only when both
\* the cookie and the request are cached, and no run_asr_session or
\* test_connection started after an invalidation holds a dropped cookie.
C21_InvalidatedCookieNotReused ==
  /\ [](\A i \in 1..Len(tasks) :
          \A d \in tasks[i].stale : tasks[i].cookie # d.cookie)
  /\ [][clearCount' > clearCount => ~cachedCookies']_vars
  /\ [][\A i \in 1..Len(tasks) :
          tasks[i].pc = "init" /\ tasks'[i].pc # "init"
            => IF cachedCookies /\ cachedAsrRequest
               THEN tasks'[i].source = "cache" /\ tasks'[i].cookie = acquired
               ELSE tasks'[i].source = "fetch" /\ tasks'[i].pc = "fetching"]_vars

C21_Witness ==
  \E i \in 1..Len(tasks) :
    /\ NextSession(i)
    /\ tasks[i].source = "fetch"
    /\ HasCredential(tasks[i])
    /\ \A d \in tasks[i].stale : tasks[i].cookie # d.cookie

\* ------------------------------------------------------------------ C22
\* a text frame that is not JSON, a frame that is neither text nor close, or
\* a JSON text frame whose event is not one the receiver knows
IsSkippedItem(f) ==
  \/ f.kind = "text" /\ ~f.json
  \/ f.kind \notin {"text", "close", "end", "error"}
  \/ f.kind = "text" /\ f.json /\ f.event \notin {"result", "finish", ""}

\* C22: receiving a malformed, non-text or unrecognized frame invokes no
\* callback, leaves the partial, the grace deadline and the cached credential
\* as they were, and the receiver goes on with its loop.
C22_SkippedFrame ==
  [][consumed' # consumed /\ IsSkippedItem(Last(consumed'))
       => /\ calls' = calls
          /\ final_text' = final_text
          /\ finish_timeout' = finish_timeout /\ expired' = expired
          /\ cacheVars' = cacheVars
          /\ recv_pc' = "top" /\ recv_exit' = "none"
          /\ sess_pc' = sess_pc /\ result' = result]_vars

C22_Witness ==
  /\ consumed # <<>> /\ IsSkippedItem(Last(consumed))
  /\ recv_pc = "top"
  /\ final_text # ""
  /\ finish_timeout = "armed"

\* ------------------------------------------------------------------ C23
\* start_recording returned Ok(handle): the capture thread was spawned
ReturnedHandle(r) == r.cap # "none"

\* the device was not found, its configuration could not be read, or its
\* stream could not be built or started
DeviceFailed(r) == r.cap = "failed" \/ (r.stt = "ended" /\ r.cap = "none")

\* C23: whenever the input device cannot be found, opened, negotiated, built
\* or started, start_recording has returned an error and no handle.
C23_DeviceFailureReturnsErr ==
  \A i \in 1..Len(runs) : DeviceFailed(runs[i]) => ~ReturnedHandle(runs[i])

\* ------------------------------------------------------------------ C24
\* C24: whenever resample_sinc processes input through the stored resampler,
\* that resampler was created for the rate pair of the call; on reaching the
\* processing step a resampler for other rates, or none, has been replaced by
\* a new one without history, and one for the same rates is kept as it is.
C24_ResamplerMatchesCall ==
  /\ [](dsp_pc = "process"
          => Rates(sinc_resampler) = <<call.from_rate, call.to_rate>>)
  /\ [][dsp_pc = "sinc" /\ dsp_pc' = "process"
          => IF Rates(sinc_resampler) = <<call.from_rate, call.to_rate>>
             THEN sinc_resampler' = sinc_resampler
             ELSE /\ sinc_resampler'[1].history = "fresh"
                  /\ sinc_resampler'[1].prior = Rates(sinc_resampler)]_vars

\* a used resampler for other rates was replaced by a new one
C24_Witness ==
  /\ dsp_pc = "process"
  /\ sinc_resampler[1].history = "fresh"
  /\ sinc_resampler[1].prior \notin {<<>>, <<call.from_rate, call.to_rate>>}

\* ------------------------------------------------------------------ C25
\* resample_sinc has returned what its fallback computed
SincFellBack == dsp_pc = "done" /\ method = "Sinc" /\ path = "linear"

\* C25: when the creation of the Sinc resampler or its processing fails,
\* resample_sinc returns what resample_linear returns for the same input and
\* rates: samples, never an error.
C25_FallbackIsLinear ==
  SincFellBack
    => /\ output = ResampleLinear(mono, call.from_rate, call.to_rate)
       /\ \A k \in 1..Len(output) : output[k] \in I16_MIN..I16_MAX

\* processing failed on a resampler made for the call's rates
C25_Witness ==
  /\ SincFellBack
  /\ Rates(sinc_resampler) = <<call.from_rate, call.to_rate>>
  /\ Len(output) > 1
  /\ output # mono

\* ------------------------------------------------------------------ C26
\* C26: what resample_linear returns is a function of its input and rates
\* alone, whatever calls came before (so two calls with the same arguments
\* return the same samples), and its steps change nothing that outlives the
\* call.
C26_LinearStateless ==
  /\ [](LinearReturned => output = ResampleLinear(mono, call.from_rate, call.to_rate))
  /\ [][(dsp_pc \in {"linear", "len", "loop"})
          => (sinc_resampler' = sinc_resampler) /\ (method' = method)]_vars
  /\ [][dsp_pc = "done" /\ dsp_pc' = "idle"
          => (ratio' = F64Zero) /\ (new_len' = 0) /\ (mono' = <<>>) /\ (output' = <<>>)]_vars

\* a linear result computed while a used Sinc resampler for other rates is stored
C26_Witness ==
  /\ LinearReturned
  /\ sinc_resampler # <<>>
  /\ sinc_resampler[1].history = "used"
  /\ Rates(sinc_resampler) # <<call.from_rate, call.to_rate>>
  /\ Len(output) > 1

\* ------------------------------------------------------------------ C27
\* the events that end the receiver without the stop flag
EndingEvents == {"finish", "error", "close", "end", "rxerr"}

\* C27: when the capture thread has failed and stop has not been signaled, the
\* session has not returned, the sender is still running, and the receiver
\* has ended only if a finish, error or close event ended it; the relay may
\* have stopped.
C27_CaptureFailureKeepsSession ==
  cap_pc = "failed" /\ ~stop_flag /\ Connected
    => /\ sess_pc = "running"
       /\ send_pc # "done"
       /\ recv_pc = "done" => recv_exit \in EndingEvents

\* the relay has stopped on the disconnected channel; sender and receiver run
C27_Witness ==
  /\ cap_pc = "failed" /\ ~stop_flag
  /\ fwd_pc = "done"
  /\ sess_pc = "running"
  /\ send_pc = "sleep"
  /\ recv_pc = "await" /\ consumed # <<>>

\* ------------------------------------------------------------------ C29
\* C29: the finish frame is the last frame the sender writes: nothing is
\* written after it, in particular no binary frame, although chunks may still
\* be waiting or arriving.
C29_FinishIsLastFrame ==
  /\ [](\A i \in 1..Len(wire) : IsFinishFrame(wire[i]) => i = Len(wire))
  /\ [][NFinishWritten > 0 => wire' = wire]_vars

\* the finish frame is written and a chunk that was never written arrives later
C29_Witness ==
  /\ NFinishWritten = 1
  /\ audio_chan # <<>>
  /\ \A i \in 1..Len(wire) : wire[i].type = "binary" => wire[i].chunk # Last(audio_chan)

\* ------------------------------------------------------------------ C30
\* C30: every text on_final is invoked with is non-empty and is the text of a
\* partial received in this run; a run that received no non-empty partial
\* never invokes on_final, however it ends.
C30_FinalNeverEmpty ==
  /\ \A i \in 1..Len(calls) :
       IsFinalCall(calls[i])
         => /\ calls[i][2] # ""
            /\ \E k \in 1..Len(PartialTexts) : PartialTexts[k] = calls[i][2]
  /\ ~SawPartial => NFinal = 0

\* the receiver has ended on finish, close, end of stream or the deadline
\* after frames without a usable text, and on_final was not invoked
C30_Witness ==
  /\ recv_pc = "done"
  /\ recv_exit \in {"finish", "close", "end", "timeout"}
  /\ \E i \in 1..Len(consumed) : consumed[i] = ResultNone
  /\ ~SawPartial
  /\ NFinal = 0

\* ------------------------------------------------------------------ C31
\* the index of the last on_partial call before call i (0: none)
LastPartialBefore(i) ==
  LET before == {j \in 1..(i - 1) : IsPartialCall(calls[j])}
  IN  IF before = {} THEN 0 ELSE CHOOSE j \in before : \A k \in before : k <= j

\* C31: whenever on_final(t) is invoked, an on_partial call precedes it and t
\* is the argument of the most recent one, on every path that ends the
\* receiver; a partial consumed after the deadline was armed replaces the
\* transcript like any other.
C31_FinalIsLastPartial ==
  /\ [](\A i \in 1..Len(calls) :
          IsFinalCall(calls[i])
            => /\ LastPartialBefore(i) # 0
               /\ calls[i][2] = calls[LastPartialBefore(i)][2])
  /\ [][finish_timeout = "armed" /\ consumed' # consumed /\ IsPartialItem(Last(consumed'))
          => final_text' = Last(consumed').text[1]]_vars

\* the deadline delivered the second of two different partials
C31_Witness ==
  /\ recv_exit = "timeout"
  /\ calls = << <<"partial", "A">>, <<"partial", "AB">>, <<"final", "AB">> >>

\* ------------------------------------------------------------------ C32
\* a release has followed the press that spawned run i: IS_RECORDING stays set
\* from a press to the next release, and a later run needs it clear
ToldToStop(i) == i < Len(runs) \/ (i = Len(runs) /\ ~is_recording)

\* run_stt has returned: capture, relay, sender and receiver have all ended
Ended(i) == runs[i].stt = "ended"

\* C32: a run that was told to stop by a release winds up (its capture loop,
\* relay, sender and receiver all see the stop and end), whatever presses and
\* releases follow.
C32_StopIsObserved ==
  \A i \in 1..MaxRuns : (i <= Len(runs) /\ ToldToStop(i)) ~> (i <= Len(runs) /\ Ended(i))

\* ------------------------------------------------------------------ C33
\* C33: the chunks a capture hands to the channel are consecutive runs of the
\* sample stream: the first starts at the stream's first sample and each
\* next one starts where the one before ended, so no sample is emitted twice
\* and none out of order.
C33_ChunksPartitionStream ==
  \A i \in 1..Len(produced) :
    produced[i].first = IF i = 1 THEN 0
                        ELSE produced[i - 1].first + produced[i - 1].len

\* ------------------------------------------------------------------ C34
\* C34: a connected run_asr_session returns only after the stop flag was set
\* or a write to the connection failed, whatever ended the receiver.
C34_NoReturnBeforeStop ==
  /\ [](sess_pc = "returned" /\ Connected => stop_flag \/ writeFailed)
  /\ [][sess_pc = "running" /\ sess_pc' = "returned" => stop_flag \/ writeFailed]_vars

\* the receiver has ended on an event, stop is not set, the session goes on
C34_Witness ==
  /\ recv_pc = "done"
  /\ recv_exit \in {"finish", "error", "rxerr", "close"}
  /\ ~stop_flag /\ ~writeFailed
  /\ sess_pc = "running"
  /\ send_pc = "sleep"

\* ------------------------------------------------------------------ C35
\* C35: the deadline is assigned at most once in a session, by an iteration
\* of the receiver's loop that finds the stop flag set and no deadline; every
\* iteration that finds the flag set leaves it armed; once armed it stays
\* armed and, once passed, stays passed, whatever frames arrive.
C35_DeadlineArmedOnce ==
  /\ [](armCount <= 1)
  /\ [](finish_timeout = "armed" <=> armCount = 1)
  /\ [][armCount' # armCount
          => recv_pc = "top" /\ stop_flag /\ finish_timeout = "none"]_vars
  /\ [][recv_pc = "top" /\ recv_pc' # "top" /\ stop_flag => finish_timeout' = "armed"]_vars
  /\ [][finish_timeout = "armed"
          => finish_timeout' = "armed" /\ (expired => expired')]_vars

\* a partial was consumed after the deadline had passed: it is still passed
C35_Witness ==
  /\ recv_pc = "top"
  /\ armCount = 1
  /\ expired
  /\ consumed # <<>> /\ IsPartialItem(Last(consumed))

\* ------------------------------------------------------------------ C36
\* C36: while IS_RECORDING is set the stop flag is clear; a step that leaves
\* IS_RECORDING set (a press during a recording among them) adds no run and
\* does not touch the stop flag; a step that leaves it clear (a release
\* without a recording among them) does not touch the stop flag; the release
\* that clears IS_RECORDING takes the stop flag from clear to set.
C36_HandlersKeepFlags ==
  /\ [](is_recording => ~stop_flag)
  /\ [][is_recording /\ is_recording'
          => Len(runs') = Len(runs) /\ stop_flag' = stop_flag]_vars
  /\ [][~is_recording /\ ~is_recording' => stop_flag' = stop_flag]_vars
  /\ [][is_recording /\ ~is_recording' => ~stop_flag /\ stop_flag']_vars
  /\ [][Len(runs') # Len(runs) => ~is_recording /\ is_recording' /\ ~stop_flag']_vars

\* two recordings were started and ended by their releases
C36_Witness ==
  /\ Len(runs) = 2
  /\ ~is_recording
  /\ stop_flag

\* ------------------------------------------------------------------ C37
\* C37: between callbacks the accumulation buffer holds fewer than CHUNK_SIZE
\* samples, and the flush at stop sends nothing when it is empty and
\* otherwise one chunk holding all of it, between 1 and CHUNK_SIZE - 1
\* samples.
C37_RemainderBelowChunk ==
  /\ [](buf.len >= 0 /\ buf.len < CHUNK_SIZE)
  /\ [][cap_pc = "recording" /\ cap_pc' = "flushed"
          => IF buf.len = 0 THEN produced' = produced
             ELSE /\ produced' = Append(produced, Last(produced'))
                  /\ Last(produced').len = buf.len
                  /\ Last(produced').len \in 1..(CHUNK_SIZE - 1)]_vars

\* callbacks emitted full chunks and the flush sent a remainder
C37_Witness ==
  /\ cap_pc = "flushed"
  /\ Len(produced) >= 2
  /\ Last(produced).len = buf.len
  /\ buf.len \in 1..(CHUNK_SIZE - 1)

\* ------------------------------------------------------------------ C38
\* the source index of the output index i: (i as f64 * ratio) as usize
SrcIdx(i) == F64ToUsize(F64Mul(F64FromInt(i), ratio))
\* the least and the greatest sample of a non-empty sequence
Values(x) == {x[k] : k \in 1..Len(x)}
Least(x) == CHOOSE v \in Values(x) : \A w \in Values(x) : v <= w
Greatest(x) == CHOOSE v \in Values(x) : \A w \in Values(x) : v >= w

\* C38: in a linear resampling of at least two samples, down or up, the
\* source index of every output index is below the input length, and every
\* output sample lies between the least and the greatest input sample (so
\* within 16 bits).
C38_IndexAndRange ==
  LinearReturned /\ Len(mono) >= 2 =>
    LET lo == Least(mono)
        hi == Greatest(mono)
    IN  \A i \in 0..(Len(output) - 1) :
          /\ SrcIdx(i) < Len(mono)
          /\ output[i + 1] >= lo
          /\ output[i + 1] <= hi
          /\ output[i + 1] \in I16_MIN..I16_MAX
C38_Witness ==
  /\ LinearReturned
  /\ Len(mono) >= 2
  /\ call.from_rate < call.to_rate
  /\ Least(mono) = I16_MIN /\ Greatest(mono) = I16_MAX
  /\ SrcIdx(Len(output) - 1) = Len(mono) - 1
  /\ \E k \in 1..Len(output) : output[k] > I16_MIN /\ output[k] < I16_MAX

\* ------------------------------------------------------------------ C39
\* the k-th callback invocation follows the alternation: odd invocations are
\* callback(true), each for a later press than the one before; even
\* invocations are callback(false) for the press of the invocation before
Alternates(k) ==
  IF k % 2 = 1
  THEN /\ cb_calls[k].v = TRUE
       /\ k > 2 => cb_calls[k].press > cb_calls[k - 2].press
  ELSE /\ cb_calls[k].v = FALSE
       /\ cb_calls[k].press = cb_calls[k - 1].press

\* C39: for every sequence of key-down, key-repeat and key-up messages of the
\* trigger key, the callback invocations alternate strictly, starting with
\* callback(true): callback(true) fires at most once per press and only
\* when the key has been held for more than the threshold, and
\* callback(false) fires on a release only if callback(true) fired for that
\* press.
C39_CallbacksAlternate ==
  /\ [](\A k \in 1..Len(cb_calls) : Alternates(k))
  /\ [][(cb_calls' # cb_calls) =>
          /\ cb_calls' = Append(cb_calls, Last(cb_calls'))
          /\ Last(cb_calls').press = presses
          /\ Last(cb_calls').v => (key_down /\ key_down'
                                    /\ clock_ms - down_at > LONG_PRESS_THRESHOLD_MS)
          /\ ~Last(cb_calls').v => (key_down /\ ~key_down')]_vars
C39_Witness ==
  /\ Len(cb_calls) = 4
  /\ presses = 3
  /\ cb_calls[1].press = 1
  /\ cb_calls[3].press = 3
  /\ ~key_down

\* ------------------------------------------------------------------ C40
\* C40: clear_cached_cookies clears only the cached cookie: the cached ASR
\* request, the cached URL parameter template and the cached login status
\* are what they were before the call.
C40_ClearKeepsOthers ==
  [][clearCount' > clearCount =>
       /\ ~cachedCookies'
       /\ cachedAsrRequest' = cachedAsrRequest
       /\ cachedUrlParams' = cachedUrlParams
       /\ cachedLoginStatus' = cachedLoginStatus]_vars
C40_Witness ==
  /\ clearCount > 0
  /\ dropped # {}
  /\ ~cachedCookies
  /\ cachedAsrRequest
  /\ cachedUrlParams
  /\ cachedLoginStatus = "in"
  /\ \A i \in 1..Len(tasks) : tasks[i].pc = "returned"

====
